---- MODULE Spec2Model ----
(***************************************************************************)
(* The Paste Happy text codec: encodePostCopyToUriComponent                *)
(* (src/src/lib/pasteHappyEncode.ts) and the decoder embedded in the       *)
(* userscripts (decompressFromEncodedURIComponent / decompress).           *)
(*                                                                         *)
(* A JavaScript string is modelled as the sequence of its 16-bit code      *)
(* units.  null / undefined is the value Null.                             *)
(***************************************************************************)
EXTENDS Integers, Sequences, FiniteSets, TLC

\* ---------------------------------------------------------------- bounds
MaxLen == 6          \* longest input handed to the encoder
MaxTok == 3          \* longest symbol string handed directly to the decoder
MaxCut == 2          \* most symbols a truncated token loses at its end
MaxPairs == 2        \* most (value, width) pairs written in a bit-codec run
MaxPayload == 3      \* longest symbol string carried by a link
MaxArg == 2          \* longest argument of a call that is made twice
MaxRun == 6          \* longest run of equal, or of distinct, code units

\* code units the encoder inputs are drawn from: three 8-bit, one 16-bit
Chars == {65, 66, 67, 300}
\* characters of directly supplied tokens: A B I x y, space, '+' and '$'
TokChars == {65, 66, 73, 120, 121, 32, 43, 36}

\* ------------------------------------------------------------ JS values
Null == <<-1>>                       \* null / undefined
undefined == 0 - 1                   \* undefined where a number is expected
NullText == <<110, 117, 108, 108>>   \* "null", what null becomes in string +

Pow2(n) == 2 ^ n

\* string concatenation a + b where a may be null (b is always a string)
Concat(a, b) == IF a = Null THEN NullText \o b ELSE a \o b

\* x == null alone: the test without its x === '' half
IsNullArg(x) == x = Null

\* x == null || x === '' (encoder line 16, decoder line 417)
IsEmptyArg(x) == x = Null \/ x = << >>

\* s.charAt(i), 0-based; '' when out of range
charAt(s, i) == IF i >= 0 /\ i < Len(s) THEN <<s[i + 1]>> ELSE << >>

SeqsUpTo(S, n) == UNION {[1..k -> S] : k \in 0..n}

VARIABLES
  pc,        \* where the caller / the running function is
  input,     \* argument of encodePostCopyToUriComponent
  enc,       \* locals of encodePostCopyToUriComponent
  wire,      \* history: the codes written, in order, as [value, bits, kind]
  token,     \* value returned by encodePostCopyToUriComponent
  str,       \* argument of decompressFromEncodedURIComponent
  dec,       \* locals of decompress
  reads,     \* history: the codes read, in order, as [value, bits]
  bitsRead,  \* history: number of bits the decoder has consumed
  ret,       \* what decompressFromEncodedURIComponent returned, and where
  cache,     \* the module-scope object baseReverseDic of the decoder script
  calls,     \* history: the finished calls, in order, as [fn, arg, result]
  plan,      \* the calls the page still makes, in order, as [fn, arg]
  sym,       \* one symbol on its way from the encoder to the decoder's lookup
  link,      \* the link the app opens and what the userscript makes of it
  page       \* the Facebook page the autopost script runs in

vars == <<pc, input, enc, wire, token, str, dec, reads, bitsRead, ret,
          cache, calls, plan, sym, link, page>>

\* state the codec itself never touches
others == <<calls, plan, sym, link, page>>

\* ------------------------------------------------------------- alphabet
\* the alphabet cut down to 64 characters, without its final '$'
alphabet64 ==
  [i \in 1..26 |-> 64 + i] \o [i \in 1..26 |-> 96 + i] \o
  [i \in 1..10 |-> 47 + i] \o <<43, 45>>

\* the decoder's alphabet with '+' and '-' in the other order
keyStrSwapped ==
  [i \in 1..26 |-> 64 + i] \o [i \in 1..26 |-> 96 + i] \o
  [i \in 1..10 |-> 47 + i] \o <<45, 43, 36>>

\* 'ABCDEFGHIJKLMNOPQRSTUVWXYZabcdefghijklmnopqrstuvwxyz0123456789+-$'
alphabet ==
  [i \in 1..26 |-> 64 + i] \o [i \in 1..26 |-> 96 + i] \o
  [i \in 1..10 |-> 47 + i] \o <<43, 45, 36>>

keyStrUriSafe ==
  [i \in 1..26 |-> 64 + i] \o [i \in 1..26 |-> 96 + i] \o
  [i \in 1..10 |-> 47 + i] \o <<43, 45, 36>>

\* the table the loop of lines 409-411 builds for keyStrUriSafe, the only
\* alphabet ever passed: every character maps to its index, a later index
\* overwriting an earlier one
baseReverseDic ==
  [ch \in {keyStrUriSafe[i] : i \in 1..Len(keyStrUriSafe)} |->
     CHOOSE i \in 0..(Len(keyStrUriSafe) - 1) :
        /\ keyStrUriSafe[i + 1] = ch
        /\ \A j \in 0..(Len(keyStrUriSafe) - 1) : keyStrUriSafe[j + 1] = ch => j <= i]

\* the module-scope object before any lookup: no table for keyStrUriSafe
EmptyCache == << >>

\* lines 407-412: the table is built on the first lookup and kept
FilledCache == IF cache = EmptyCache THEN baseReverseDic ELSE cache

\* getBaseValue returning nothing from the call that builds the table
getBaseValueWarmOnly(character) ==
  IF cache # EmptyCache /\ Len(character) = 1 /\ character[1] \in DOMAIN cache
    THEN cache[character[1]]
    ELSE undefined

\* getBaseValue(keyStrUriSafe, character); character is a string of length 0 or 1
getBaseValue(character) ==
  IF Len(character) = 1 /\ character[1] \in DOMAIN FilledCache
    THEN FilledCache[character[1]]
    ELSE undefined

\* -------------------------------------------------------- URI escaping
HexDigit(n) == IF n < 10 THEN 48 + n ELSE 55 + n          \* 0-9 A-F
HexValue(c) ==
  IF c >= 48 /\ c <= 57 THEN c - 48
  ELSE IF c >= 65 /\ c <= 70 THEN c - 55
  ELSE IF c >= 97 /\ c <= 102 THEN c - 87
  ELSE -1

\* characters encodeURIComponent leaves alone: A-Z a-z 0-9 - _ . ! ~ * ' ( )
UriUnreserved ==
  (65..90) \cup (97..122) \cup (48..57) \cup {45, 95, 46, 33, 126, 42, 39, 40, 41}

\* encodeURIComponent on a string of ASCII code units
RECURSIVE encodeURIComponent(_)
encodeURIComponent(s) ==
  IF s = << >> THEN << >>
  ELSE (IF s[1] \in UriUnreserved
          THEN <<s[1]>>
          ELSE <<37, HexDigit(s[1] \div 16), HexDigit(s[1] % 16)>>)
       \o encodeURIComponent(Tail(s))

\* decodeURIComponent on a string whose escapes denote ASCII code units
RECURSIVE decodeURIComponent(_)
decodeURIComponent(s) ==
  IF s = << >> THEN << >>
  ELSE IF s[1] = 37 /\ Len(s) >= 3 /\ HexValue(s[2]) >= 0 /\ HexValue(s[3]) >= 0
    THEN <<16 * HexValue(s[2]) + HexValue(s[3])>>
         \o decodeURIComponent(SubSeq(s, 4, Len(s)))
    ELSE <<s[1]>> \o decodeURIComponent(Tail(s))

\* the opposite fix-up: every '+' becomes a space
replacePluses(s) == [i \in 1..Len(s) |-> IF s[i] = 43 THEN 32 ELSE s[i]]

\* input.replace(/ /g, '+')
replaceSpaces(s) == [i \in 1..Len(s) |-> IF s[i] = 32 THEN 43 ELSE s[i]]

\* ------------------------------------------------------------- encoder
\* pushBits writing the most significant bit of value first
RECURSIVE pushBitsMsbFrom(_, _, _, _)
pushBitsMsbFrom(i, value, bits, o) ==
  IF i >= bits THEN o
  ELSE LET buffer   == o.state.buffer * 2 + ((value \div Pow2(bits - 1 - i)) % 2)
           bitCount == o.state.bitCount + 1
       IN IF bitCount = 6
            THEN pushBitsMsbFrom(i + 1, value, bits,
                   [output |-> Append(o.output, alphabet[buffer + 1]),
                    state  |-> [buffer |-> 0, bitCount |-> 0]])
            ELSE pushBitsMsbFrom(i + 1, value, bits,
                   [output |-> o.output,
                    state  |-> [buffer |-> buffer, bitCount |-> bitCount]])

\* pushBits(value, bits, output, state), lines 4-12 from bit i on;
\* o = [output, state]
RECURSIVE pushBitsFrom(_, _, _, _)
pushBitsFrom(i, value, bits, o) ==
  IF i >= bits THEN o
  ELSE LET buffer   == o.state.buffer * 2 + ((value \div Pow2(i)) % 2)
           bitCount == o.state.bitCount + 1
       IN IF bitCount = 6
            THEN pushBitsFrom(i + 1, value, bits,
                   [output |-> Append(o.output, alphabet[buffer + 1]),
                    state  |-> [buffer |-> 0, bitCount |-> 0]])
            ELSE pushBitsFrom(i + 1, value, bits,
                   [output |-> o.output,
                    state  |-> [buffer |-> buffer, bitCount |-> bitCount]])

pushBits(value, bits, o) == pushBitsFrom(0, value, bits, o)

\* locals of the encoder as declared in lines 20-29
EncLocals ==
  [dictionary     |-> << >>,       \* Map<string, number>
   pending        |-> {},
   dictionarySize |-> 3,
   numBits        |-> 2,
   enlargeIn      |-> 2,
   output         |-> << >>,
   state          |-> [buffer |-> 0, bitCount |-> 0],
   w              |-> << >>,
   ii             |-> 0]

has(dictionary, k) == k \in DOMAIN dictionary

\* dictionary.set(k, v) on a dictionary that reuses its first four codes
setReuse(dictionary, k, v) ==
  [x \in DOMAIN dictionary \cup {k} |->
     IF x = k THEN 3 + ((v - 3) % 4) ELSE dictionary[x]]

\* dictionary.set(k, v)
set(dictionary, k, v) ==
  [x \in DOMAIN dictionary \cup {k} |-> IF x = k THEN v ELSE dictionary[x]]

\* lines 33-36 with the dictionary.set forgotten
AddCharPendingOnly(e, c) ==
  IF ~has(e.dictionary, c) /\ c \notin e.pending
    THEN [e EXCEPT !.pending = e.pending \cup {c}]
    ELSE e

\* lines 33-36: a code unit seen for the first time gets the next code
AddChar(e, c) ==
  IF ~has(e.dictionary, c)
    THEN [e EXCEPT !.dictionary = set(e.dictionary, c, e.dictionarySize),
                   !.dictionarySize = e.dictionarySize + 1,
                   !.pending = e.pending \cup {c}]
    ELSE e

\* lines 54-56 / 84-86: dictionary.get(w) is undefined
Missing(e) == e.w \notin e.pending /\ ~has(e.dictionary, e.w)

\* the code put on the wire for w (lines 42-58): marker or dictionary code
EmitCode(e) ==
  IF e.w \in e.pending
    THEN [value |-> IF e.w[1] < 256 THEN 0 ELSE 1, bits |-> e.numBits,
          kind |-> "literal"]
    ELSE [value |-> e.dictionary[e.w], bits |-> e.numBits, kind |-> "code"]

\* lines 42-58 with every match written as a literal escape of its first
\* code unit, the dictionary code never used
WriteWLiteral(e) ==
  LET o == [output |-> e.output, state |-> e.state]
      charCode == e.w[1]
      p == IF charCode < 256
             THEN pushBits(charCode, 8, pushBits(0, e.numBits, o))
             ELSE pushBits(charCode, 16, pushBits(1, e.numBits, o))
  IN [e EXCEPT !.pending = e.pending \ {e.w},
               !.output = p.output, !.state = p.state]

\* lines 42-58: write w as a literal escape or as its dictionary code
WriteW(e) ==
  LET o == [output |-> e.output, state |-> e.state] IN
  IF e.w \in e.pending
    THEN LET charCode == e.w[1]
             p == IF charCode < 256
                    THEN pushBits(charCode, 8, pushBits(0, e.numBits, o))
                    ELSE pushBits(charCode, 16, pushBits(1, e.numBits, o))
         IN [e EXCEPT !.pending = e.pending \ {e.w},
                      !.output = p.output, !.state = p.state]
    ELSE LET p == pushBits(e.dictionary[e.w], e.numBits, o)
         IN [e EXCEPT !.output = p.output, !.state = p.state]

\* lines 60-64: the encoder's growth schedule
EncGrow(e) ==
  IF e.enlargeIn - 1 = 0
    THEN [e EXCEPT !.enlargeIn = Pow2(e.numBits), !.numBits = e.numBits + 1]
    ELSE [e EXCEPT !.enlargeIn = e.enlargeIn - 1]

\* lines 42-64 with pending.delete(w) forgotten
EmitKeepPending(e) == [EncGrow(WriteW(e)) EXCEPT !.pending = e.pending]

\* lines 42-64 (and again 72-94)
Emit(e) == EncGrow(WriteW(e))

\* lines 15-29: the call, its short-circuit and the initial locals
EncodeStart ==
  /\ pc = "encode"
  /\ IF IsEmptyArg(input)
       THEN /\ token' = << >>
            /\ pc' = "encoded"
       ELSE /\ token' = token
            /\ pc' = "enc_loop"
  /\ enc' = EncLocals
  /\ UNCHANGED <<input, wire, str, dec, reads, bitsRead, ret, cache, others>>

\* lines 31-69: one iteration of the main loop
EncodeLoop ==
  /\ pc = "enc_loop"
  /\ enc.ii < Len(input)
  /\ LET c  == charAt(input, enc.ii)
         e1 == AddChar(enc, c)
         wc == e1.w \o c
     IN IF has(e1.dictionary, wc)
          THEN /\ enc' = [e1 EXCEPT !.w = wc, !.ii = e1.ii + 1]
               /\ pc' = pc
               /\ wire' = wire
          ELSE IF Missing(e1)
            THEN /\ enc' = e1
                 /\ pc' = "enc_throw"
                 /\ wire' = wire
            ELSE LET e2 == Emit(e1)
                 IN /\ enc' = [e2 EXCEPT
                                 !.dictionary = set(e2.dictionary, wc, e2.dictionarySize),
                                 !.dictionarySize = e2.dictionarySize + 1,
                                 !.w = c,
                                 !.ii = e2.ii + 1]
                    /\ pc' = pc
                    /\ wire' = Append(wire, EmitCode(e1))
  /\ UNCHANGED <<input, token, str, dec, reads, bitsRead, ret, cache, others>>

\* lines 71-95: the last match
EncodeFinal ==
  /\ pc = "enc_loop"
  /\ enc.ii >= Len(input)
  /\ IF enc.w # << >>
       THEN IF Missing(enc)
              THEN /\ pc' = "enc_throw"
                   /\ UNCHANGED <<enc, wire>>
              ELSE /\ enc' = Emit(enc)
                   /\ wire' = Append(wire, EmitCode(enc))
                   /\ pc' = "enc_eos"
       ELSE /\ pc' = "enc_eos"
            /\ UNCHANGED <<enc, wire>>
  /\ UNCHANGED <<input, token, str, dec, reads, bitsRead, ret, cache, others>>

\* line 97: the end-of-stream marker
EncodeEos ==
  /\ pc = "enc_eos"
  /\ LET p == pushBits(2, enc.numBits, [output |-> enc.output, state |-> enc.state])
     IN enc' = [enc EXCEPT !.output = p.output, !.state = p.state]
  /\ wire' = Append(wire, [value |-> 2, bits |-> enc.numBits, kind |-> "eos"])
  /\ pc' = "enc_flush"
  /\ UNCHANGED <<input, token, str, dec, reads, bitsRead, ret, cache, others>>

\* padding that emits nothing when the buffer is empty
flushPaddingSkip(o) ==
  IF o.state.bitCount = 0 THEN o
  ELSE [output |-> Append(o.output,
                     alphabet[o.state.buffer * Pow2(6 - o.state.bitCount) + 1]),
        state  |-> [buffer   |-> o.state.buffer * Pow2(6 - o.state.bitCount),
                    bitCount |-> 6]]

\* lines 99-106: shift zero bits in until a symbol completes
RECURSIVE flushPadding(_)
flushPadding(o) ==
  LET buffer   == o.state.buffer * 2
      bitCount == o.state.bitCount + 1
  IN IF bitCount = 6
       THEN [output |-> Append(o.output, alphabet[buffer + 1]),
             state  |-> [buffer |-> buffer, bitCount |-> bitCount]]
       ELSE flushPadding([output |-> o.output,
                          state  |-> [buffer |-> buffer, bitCount |-> bitCount]])

\* lines 99-108: padding and the return value
EncodeFlush ==
  /\ pc = "enc_flush"
  /\ LET p == flushPadding([output |-> enc.output, state |-> enc.state])
     IN /\ enc' = [enc EXCEPT !.output = p.output, !.state = p.state]
        /\ token' = encodeURIComponent(p.output)
  /\ pc' = "encoded"
  /\ UNCHANGED <<input, wire, str, dec, reads, bitsRead, ret, cache, others>>

\* ------------------------------------------------------------- decoder
resetValue == 32                     \* second argument of decompress, line 421

\* a lookup that reads an unknown character as all ones
NullishNumOnes(a, b) == IF a = undefined THEN 63 ELSE a

\* a ?? b on number-valued lookups
NullishNum(a, b) == IF a = undefined THEN b ELSE a

\* the getNextValue callback of line 421
getNextValue(s, index) == getBaseValue(charAt(s, index))

\* one pass of the bit loop body (lines 442-447): the bit and the new cursor
ReadBit(data, s) ==
  LET bit      == (data.value \div data.position) % 2      \* value & position
      position == data.position \div 2
  IN [bit  |-> IF bit > 0 THEN 1 ELSE 0,
      data |-> IF position = 0
                 THEN [value    |-> NullishNum(getNextValue(s, data.index), 0),
                       position |-> resetValue,
                       index    |-> data.index + 1]
                 ELSE [data EXCEPT !.position = position]]

\* the bit loops accumulating the most significant bit first
RECURSIVE readBitsMsbFrom(_, _, _, _, _)
readBitsMsbFrom(k, n, acc, data, s) ==
  IF k >= n THEN [bits |-> acc, data |-> data]
  ELSE CHOOSE out \in {readBitsMsbFrom(k + 1, n, acc * 2 + r.bit, r.data, s) :
                         r \in {ReadBit(data, s)}} : TRUE

\* the bit loops (lines 441-450, 503-512, ...): n bits, least significant first
RECURSIVE readBitsFrom(_, _, _, _, _)
readBitsFrom(k, n, acc, data, s) ==
  IF k >= n THEN [bits |-> acc, data |-> data]
  ELSE CHOOSE out \in {readBitsFrom(k + 1, n, acc + r.bit * Pow2(k), r.data, s) :
                         r \in {ReadBit(data, s)}} : TRUE

readBits(n, data, s) == readBitsFrom(0, n, 0, data, s)

\* String.fromCharCode keeping only the low byte
fromCharCodeByte(n) == <<n % 256>>

\* String.fromCharCode(n)
fromCharCode(n) == <<n % 65536>>

\* result.join(''): null and undefined elements contribute nothing
RECURSIVE join(_)
join(result) ==
  IF result = << >> THEN << >>
  ELSE (IF Head(result) = Null THEN << >> ELSE Head(result)) \o join(Tail(result))

\* locals of decompress before a call
DecLocals ==
  [str        |-> << >>,
   length     |-> 0,
   dictionary |-> [i \in 0..2 |-> i],
   enlargeIn  |-> 4,
   dictSize   |-> 4,
   numBits    |-> 3,
   result     |-> << >>,
   data       |-> [value |-> 0, position |-> resetValue, index |-> 1],
   w          |-> Null]

NoReturn == [kind |-> "none", value |-> << >>, at |-> "none"]
Return(v, where) == [kind |-> "return", value |-> v, at |-> where]
Throw(where) == [kind |-> "throw", value |-> << >>, at |-> where]

\* dictionary[k] = v on the decoder's array
put(dictionary, k, v) ==
  [x \in DOMAIN dictionary \cup {k} |-> IF x = k THEN v ELSE dictionary[x]]

\* a growth that leaves twice the room
DecGrowSame(d) ==
  IF d.enlargeIn = 0
    THEN [d EXCEPT !.enlargeIn = Pow2(d.numBits + 1), !.numBits = d.numBits + 1]
    ELSE d

\* lines 555-558 and 576-579: the decoder's growth schedule
DecGrow(d) ==
  IF d.enlargeIn = 0
    THEN [d EXCEPT !.enlargeIn = Pow2(d.numBits), !.numBits = d.numBits + 1]
    ELSE d

\* lines 416-493: the short-circuit, the space fix-up and the header
DecodeStart ==
  /\ pc = "decode"
  /\ IF IsEmptyArg(str)
       THEN /\ ret' = Return(<< >>, "empty")
            /\ pc' = "returned"
            /\ UNCHANGED <<dec, reads, bitsRead, cache>>
       ELSE LET s    == replaceSpaces(str)
                d0   == [value    |-> NullishNum(getNextValue(s, 0), 0),
                         position |-> resetValue,
                         index    |-> 1]
                m    == readBits(2, d0, s)
                lit  == IF m.bits = 0 THEN readBits(8, m.data, s)
                        ELSE readBits(16, m.data, s)
                next == IF m.bits \in {0, 1} THEN fromCharCode(lit.bits) ELSE Null
            IN /\ reads' = Append(reads, [value |-> m.bits, bits |-> 2])
               /\ cache' = FilledCache
               /\ IF m.bits = 2
                    THEN /\ ret' = Return(<< >>, "header_eos")
                         /\ pc' = "returned"
                         /\ bitsRead' = bitsRead + 2
                         /\ dec' = [DecLocals EXCEPT !.str = s, !.length = Len(s),
                                                     !.data = m.data]
                    ELSE /\ ret' = ret
                         /\ pc' = "dec_loop"
                         /\ bitsRead' = bitsRead + 2 +
                               (IF m.bits = 0 THEN 8 ELSE IF m.bits = 1 THEN 16 ELSE 0)
                         /\ dec' = [DecLocals EXCEPT
                                      !.str = s, !.length = Len(s),
                                      !.data = IF m.bits \in {0, 1} THEN lit.data ELSE m.data,
                                      !.dictionary = put(DecLocals.dictionary, 3, next),
                                      !.w = next,
                                      !.result = <<next>>]
  /\ UNCHANGED <<input, enc, wire, token, str, others>>

\* a literal escape read in the main loop but not stored in the dictionary
DecLiteralNoEntry(d, c) ==
  LET lit == readBits(IF c = 0 THEN 8 ELSE 16, d.data, d.str)
  IN [d EXCEPT !.enlargeIn = d.enlargeIn - 1,
               !.data = lit.data]

\* lines 514-553: a literal escape read in the main loop
DecLiteral(d, c) ==
  LET lit == readBits(IF c = 0 THEN 8 ELSE 16, d.data, d.str)
  IN [d EXCEPT !.dictionary = put(d.dictionary, d.dictSize, fromCharCode(lit.bits)),
               !.dictSize = d.dictSize + 1,
               !.enlargeIn = d.enlargeIn - 1,
               !.data = lit.data]

\* line 561: dictionary[c] is truthy
Known(d, c) == c \in DOMAIN d.dictionary /\ d.dictionary[c] # Null /\ d.dictionary[c] # << >>

\* lines 570-579: output the value, add w + value[0], advance the schedule
DecAppend(d, value) ==
  DecGrow([d EXCEPT !.result = Append(d.result, value),
                    !.dictionary = put(d.dictionary, d.dictSize,
                                       Concat(d.w, charAt(value, 0))),
                    !.dictSize = d.dictSize + 1,
                    !.enlargeIn = d.enlargeIn - 1,
                    !.w = value])

\* the index check looking one symbol too far
ExhaustedLate(d) == d.data.index > d.length + 1

\* line 496: every input symbol has been loaded and used up
Exhausted(d) == d.data.index > d.length

\* the main loop returning the text collected so far for an unresolved code
DecodeLoopPartial ==
  /\ pc = "dec_loop"
  /\ IF Exhausted(dec)
       THEN /\ ret' = Return(<< >>, "exhausted")
            /\ pc' = "returned"
            /\ UNCHANGED <<dec, reads, bitsRead>>
       ELSE LET r  == readBits(dec.numBits, dec.data, dec.str)
                d1 == [dec EXCEPT !.data = r.data]
            IN /\ reads' = Append(reads, [value |-> r.bits, bits |-> dec.numBits])
               /\ IF r.bits = 2
                    THEN /\ ret' = Return(join(dec.result), "eos")
                         /\ pc' = "returned"
                         /\ dec' = d1
                         /\ bitsRead' = bitsRead + dec.numBits
                    ELSE LET d2 == IF r.bits \in {0, 1} THEN DecLiteral(d1, r.bits) ELSE d1
                             c  == IF r.bits \in {0, 1} THEN d2.dictSize - 1 ELSE r.bits
                             d3 == DecGrow(d2)
                         IN /\ bitsRead' = bitsRead + dec.numBits +
                                  (IF r.bits = 0 THEN 8 ELSE IF r.bits = 1 THEN 16 ELSE 0)
                            /\ IF Known(d3, c)
                                 THEN /\ dec' = DecAppend(d3, d3.dictionary[c])
                                      /\ UNCHANGED <<pc, ret>>
                                 ELSE IF c = d3.dictSize
                                   THEN IF d3.w = Null
                                          THEN /\ ret' = Throw("w.charAt")
                                               /\ pc' = "dec_throw"
                                               /\ dec' = d3
                                          ELSE /\ dec' = DecAppend(d3, d3.w \o charAt(d3.w, 0))
                                               /\ UNCHANGED <<pc, ret>>
                                   ELSE /\ ret' = Return(join(d3.result), "unresolved")
                                        /\ pc' = "returned"
                                        /\ dec' = d3
  /\ UNCHANGED <<input, enc, wire, token, str, cache, others>>

\* lines 495-580: one iteration of the main loop
DecodeLoop ==
  /\ pc = "dec_loop"
  /\ IF Exhausted(dec)
       THEN /\ ret' = Return(<< >>, "exhausted")
            /\ pc' = "returned"
            /\ UNCHANGED <<dec, reads, bitsRead>>
       ELSE LET r  == readBits(dec.numBits, dec.data, dec.str)
                d1 == [dec EXCEPT !.data = r.data]
            IN /\ reads' = Append(reads, [value |-> r.bits, bits |-> dec.numBits])
               /\ IF r.bits = 2
                    THEN /\ ret' = Return(join(dec.result), "eos")
                         /\ pc' = "returned"
                         /\ dec' = d1
                         /\ bitsRead' = bitsRead + dec.numBits
                    ELSE LET d2 == IF r.bits \in {0, 1} THEN DecLiteral(d1, r.bits) ELSE d1
                             c  == IF r.bits \in {0, 1} THEN d2.dictSize - 1 ELSE r.bits
                             d3 == DecGrow(d2)
                         IN /\ bitsRead' = bitsRead + dec.numBits +
                                  (IF r.bits = 0 THEN 8 ELSE IF r.bits = 1 THEN 16 ELSE 0)
                            /\ IF Known(d3, c)
                                 THEN /\ dec' = DecAppend(d3, d3.dictionary[c])
                                      /\ UNCHANGED <<pc, ret>>
                                 ELSE IF c = d3.dictSize
                                   THEN IF d3.w = Null
                                          THEN /\ ret' = Throw("w.charAt")
                                               /\ pc' = "dec_throw"
                                               /\ dec' = d3
                                          ELSE /\ dec' = DecAppend(d3, d3.w \o charAt(d3.w, 0))
                                               /\ UNCHANGED <<pc, ret>>
                                   ELSE /\ ret' = Return(<< >>, "unresolved")
                                        /\ pc' = "returned"
                                        /\ dec' = d3
  /\ UNCHANGED <<input, enc, wire, token, str, cache, others>>

\* ------------------------------------------------------------ transport
\* decodePostCopy (userscript lines 129-135): the token reaches the decoder
\* percent-unescaped
DeliverToken ==
  /\ pc = "encoded"
  /\ str' = decodeURIComponent(token)
  /\ pc' = "decode"
  /\ UNCHANGED <<input, enc, wire, token, dec, reads, bitsRead, ret, cache, others>>

\* the link is cut short on the way: a non-empty proper prefix arrives
DeliverTruncated ==
  /\ pc = "encoded"
  /\ LET t == decodeURIComponent(token)
     IN \E cut \in 1..MaxCut :
          /\ cut < Len(t)
          /\ str' = SubSeq(t, 1, Len(t) - cut)
  /\ pc' = "decode"
  /\ UNCHANGED <<input, enc, wire, token, dec, reads, bitsRead, ret, cache, others>>

\* ------------------------------------------------------- specification
Inputs == {Null} \cup SeqsUpTo(Chars, MaxLen)
Tokens == {Null} \cup SeqsUpTo(TokChars, MaxTok)

NoSym == [index |-> 0, char |-> << >>, value |-> undefined]
NoLink == [url |-> << >>, payload |-> << >>, href |-> << >>, fed |-> Null]

\* no page is open
NoPage == [open |-> FALSE]

\* the scripts have just been loaded: nothing has run yet
Loaded ==
  /\ enc = EncLocals
  /\ dec = DecLocals
  /\ wire = << >>
  /\ reads = << >>
  /\ bitsRead = 0
  /\ token = Null
  /\ ret = NoReturn
  /\ cache = EmptyCache
  /\ calls = << >>
  /\ page = NoPage

\* Either function is called with some argument
Init ==
  /\ Loaded
  /\ plan = << >>
  /\ sym = NoSym
  /\ link = NoLink
  /\ \/ pc = "encode" /\ input \in Inputs /\ str = Null
     \/ pc = "decode" /\ input = Null /\ str \in Tokens

Next ==
  \/ EncodeStart
  \/ EncodeLoop
  \/ EncodeFinal
  \/ EncodeEos
  \/ EncodeFlush
  \/ DeliverToken
  \/ DeliverTruncated
  \/ DecodeStart
  \/ DecodeLoop

Spec == Init /\ [][Next]_vars

\* ------------------------------------------------- the bit codec alone
\* values and widths handed to pushBits: codes, markers and literals, some
\* wider than the width they are written in
BitValues == {0, 2, 5, 10, 65, 300}
BitWidths == {2, 3, 8, 16}

\* pushBits(value, bits, output, state) on a fresh output (lines 3-13)
BitsWrite ==
  /\ pc = "bits_write"
  /\ Len(wire) < MaxPairs
  /\ \E value \in BitValues, bits \in BitWidths :
       LET p == pushBits(value, bits, [output |-> enc.output, state |-> enc.state])
       IN /\ enc' = [enc EXCEPT !.output = p.output, !.state = p.state]
          /\ wire' = Append(wire, [value |-> value, bits |-> bits, kind |-> "raw"])
  /\ UNCHANGED <<pc, input, token, str, dec, reads, bitsRead, ret, cache, others>>

\* the padding of lines 99-106, then the reader's cursor of line 432 is put
\* on the symbols written
BitsFlush ==
  /\ pc = "bits_write"
  /\ wire # << >>
  /\ LET p == flushPadding([output |-> enc.output, state |-> enc.state])
     IN /\ enc' = [enc EXCEPT !.output = p.output, !.state = p.state]
        /\ str' = p.output
        /\ dec' = [DecLocals EXCEPT
                     !.str = p.output, !.length = Len(p.output),
                     !.data = [value    |-> NullishNum(getNextValue(p.output, 0), 0),
                               position |-> resetValue,
                               index    |-> 1]]
  /\ cache' = FilledCache
  /\ pc' = "bits_read"
  /\ UNCHANGED <<input, wire, token, reads, bitsRead, ret, others>>

\* one bit loop of the decoder (lines 500-512) at the width of the next pair
BitsRead ==
  /\ pc = "bits_read"
  /\ Len(reads) < Len(wire)
  /\ LET bits == wire[Len(reads) + 1].bits
         r    == readBits(bits, dec.data, dec.str)
     IN /\ dec' = [dec EXCEPT !.data = r.data]
        /\ reads' = Append(reads, [value |-> r.bits, bits |-> bits])
        /\ bitsRead' = bitsRead + bits
  /\ UNCHANGED <<pc, input, enc, wire, token, str, ret, cache, others>>

InitBits ==
  /\ Loaded
  /\ plan = << >>
  /\ sym = NoSym
  /\ link = NoLink
  /\ pc = "bits_write"
  /\ input = Null
  /\ str = Null

NextBits ==
  \/ BitsWrite
  \/ BitsFlush
  \/ BitsRead

SpecBits == InitBits /\ [][NextBits]_vars

\* ------------------------------------------------ one symbol, both ways
\* line 8: the encoder's character for an index of its alphabet
SymEmit ==
  /\ pc = "sym_index"
  /\ sym' = [sym EXCEPT !.char = charAt(alphabet, sym.index)]
  /\ pc' = "sym_char"
  /\ UNCHANGED <<input, enc, wire, token, str, dec, reads, bitsRead, ret,
                 cache, calls, plan, link, page>>

\* lines 406-414 as called from line 421: the decoder's index for a character
SymLookup ==
  /\ pc = "sym_char"
  /\ sym' = [sym EXCEPT !.value = getBaseValue(sym.char)]
  /\ cache' = FilledCache
  /\ pc' = "sym_done"
  /\ UNCHANGED <<input, enc, wire, token, str, dec, reads, bitsRead, ret,
                 calls, plan, link, page>>

InitSym ==
  /\ Loaded
  /\ plan = << >>
  /\ link = NoLink
  /\ pc = "sym_index"
  /\ input = Null
  /\ str = Null
  /\ \E i \in 0..(Len(alphabet) - 1) : sym = [NoSym EXCEPT !.index = i]

NextSym ==
  \/ SymEmit
  \/ SymLookup

SpecSym == InitSym /\ [][NextSym]_vars

\* ------------------------------------------------------ link transport
\* symbols a carried token is made of: A 9 + -
PayloadChars == {65, 57, 43, 45}

\* group URLs without a ph or ph_post parameter of their own: plain, with a
\* query, with a fragment, with both, with an empty fragment
GroupUrls ==
  { <<104, 116, 116, 112, 115, 58, 47, 47, 102, 46, 99, 111, 47, 103, 47, 49>>,
    <<104, 116, 116, 112, 115, 58, 47, 47, 102, 46, 99, 111, 47, 103, 47, 49, 63, 97, 61, 98>>,
    <<104, 116, 116, 112, 115, 58, 47, 47, 102, 46, 99, 111, 47, 103, 47, 49, 35, 116, 111, 112>>,
    <<104, 116, 116, 112, 115, 58, 47, 47, 102, 46, 99, 111, 47, 103, 47, 49, 63, 97, 61, 98, 35, 99, 61, 100>>,
    <<104, 116, 116, 112, 115, 58, 47, 47, 102, 46, 99, 111, 47, 103, 47, 49, 35>> }

\* values of Date.now() in the link
VisitStamps == { <<55>>, <<52, 50>> }

\* s.indexOf(ch) + 1: the first position of ch in s, 0 when absent
IndexOf(str0, ch) ==
  CHOOSE at \in {IF \E i \in 1..Len(s) : s[i] = ch
                  THEN CHOOSE i \in 1..Len(s) :
                         s[i] = ch /\ \A j \in 1..(i - 1) : s[j] # ch
                  ELSE 0 : s \in {str0}} : TRUE

\* s.includes(ch)
includes(s, ch) == IndexOf(s, ch) # 0

\* s.split(ch)
RECURSIVE split(_, _)
split(str0, ch) ==
  CHOOSE pieces \in {IF at = 0 THEN <<s>>
                      ELSE <<SubSeq(s, 1, at - 1)>>
                           \o split(SubSeq(s, at + 1, Len(s)), ch) :
                      <<s, at>> \in {<<str0, IndexOf(str0, ch)>>}} : TRUE

\* the separator always taken to be '#'
SeparatorHash(url) == <<35>>

\* App.tsx line 1263: currentRow.url.includes('#') ? '&' : '#'
Separator(url) == IF includes(url, 35) THEN <<38>> ELSE <<35>>

\* App.tsx lines 1261-1264: the URL of the new tab
BuildHref(url, payload, stamp) ==
  url \o Separator(url) \o <<112, 104, 61, 49, 38, 112, 104, 95, 112, 111, 115, 116, 61>> \o payload \o <<38, 112, 104, 95, 118, 105, 115, 105, 116, 61>> \o stamp

\* window.location.hash: from the first '#', '' when the fragment is empty
LocationHash(href) ==
  IF IndexOf(href, 35) = 0 \/ IndexOf(href, 35) = Len(href) THEN << >>
  ELSE SubSeq(href, IndexOf(href, 35), Len(href))

\* window.location.search: from the first '?' before the fragment
LocationSearch(href) ==
  LET h == IF IndexOf(href, 35) = 0 THEN href
           ELSE SubSeq(href, 1, IndexOf(href, 35) - 1)
  IN IF IndexOf(h, 63) = 0 \/ IndexOf(h, 63) = Len(h) THEN << >>
     ELSE SubSeq(h, IndexOf(h, 63), Len(h))

\* slice(1)
slice1(s) == SubSeq(s, 2, Len(s))

\* s.join('&') on a list of strings
RECURSIVE joinAmp(_)
joinAmp(segments) ==
  IF segments = << >> THEN << >>
  ELSE IF Len(segments) = 1 THEN segments[1]
  ELSE segments[1] \o <<38>> \o joinAmp(Tail(segments))

\* application/x-www-form-urlencoded decoding of a name or value:
\* '+' is a space, then percent-escapes are resolved
formDecode(str0) ==
  CHOOSE out \in {decodeURIComponent(spaced) :
                    spaced \in {[i \in 1..Len(str0) |->
                                   IF str0[i] = 43 THEN 32 ELSE str0[i]]}} : TRUE

\* new URLSearchParams(query): the list of [name, value], empty pieces skipped
RECURSIVE formPairs(_)
formPairs(pieces) ==
  IF pieces = << >> THEN << >>
  ELSE CHOOSE pairs \in
         {(IF piece = << >> THEN << >>
           ELSE IF eq = 0
             THEN <<[name |-> formDecode(piece), value |-> << >>]>>
             ELSE <<[name  |-> formDecode(SubSeq(piece, 1, eq - 1)),
                     value |-> formDecode(SubSeq(piece, eq + 1, Len(piece)))]>>)
          \o formPairs(Tail(pieces)) :
          <<piece, eq>> \in {<<Head(pieces), IndexOf(Head(pieces), 61)>>}} : TRUE

URLSearchParams(query) ==
  CHOOSE params \in {formPairs(pieces) : pieces \in {split(query, 38)}} : TRUE

\* params.get(name): the first value under the name, or null
get(params, name) ==
  IF \E i \in 1..Len(params) : params[i].name = name
    THEN params[CHOOSE i \in 1..Len(params) :
                  /\ params[i].name = name
                  /\ \A j \in 1..(i - 1) : params[j].name # name].value
    ELSE Null

\* extractEncodedPayload (userscript lines 110-127)
extractEncodedPayload(href) ==
  LET segments == (IF Len(LocationSearch(href)) > 1
                     THEN <<slice1(LocationSearch(href))>> ELSE << >>)
                  \o (IF Len(LocationHash(href)) > 1
                        THEN <<slice1(LocationHash(href))>> ELSE << >>)
  IN IF segments = << >> THEN Null
     ELSE CHOOSE encoded \in
            {IF get(params, <<112, 104>>) # <<49>> THEN Null
             ELSE get(params, <<112, 104, 95, 112, 111, 115, 116>>) :
             params \in {URLSearchParams(joinAmp(segments))}} : TRUE

\* App.tsx lines 1259-1265: the link for the current row is built
LinkBuild ==
  /\ pc = "link_build"
  /\ \E stamp \in VisitStamps :
        link' = [link EXCEPT
                   !.href = BuildHref(link.url, encodeURIComponent(link.payload), stamp)]
  /\ pc' = "link_open"
  /\ UNCHANGED <<input, enc, wire, token, str, dec, reads, bitsRead, ret,
                 cache, calls, plan, sym, page>>

\* userscript lines 70-76 and 110-127: the page reads ph_post from its URL
LinkExtract ==
  /\ pc = "link_open"
  /\ token' = extractEncodedPayload(link.href)
  /\ pc' = "link_read"
  /\ UNCHANGED <<input, enc, wire, str, dec, reads, bitsRead, ret,
                 cache, calls, plan, sym, link, page>>

\* userscript lines 129-135 and 482-486: decodePostCopy up to the string
\* handed to decompress
LinkDecode ==
  /\ pc = "link_read"
  /\ link' = [link EXCEPT
                !.fed = IF token = Null \/ token = << >> THEN Null
                        ELSE IF IsEmptyArg(decodeURIComponent(token)) THEN Null
                        ELSE replaceSpaces(decodeURIComponent(token))]
  /\ pc' = "link_done"
  /\ UNCHANGED <<input, enc, wire, token, str, dec, reads, bitsRead, ret,
                 cache, calls, plan, sym, page>>

InitLink ==
  /\ Loaded
  /\ plan = << >>
  /\ sym = NoSym
  /\ pc = "link_build"
  /\ input = Null
  /\ str = Null
  /\ \E url \in GroupUrls, t \in SeqsUpTo(PayloadChars, MaxPayload) \ {<< >>} :
        link = [NoLink EXCEPT !.url = url, !.payload = t]

NextLink ==
  \/ LinkBuild
  \/ LinkExtract
  \/ LinkDecode

SpecLink == InitLink /\ [][NextLink]_vars

\* ------------------------------------------------------ decoder alone
\* the userscript decodes whatever the fragment carries; a call runs to
\* completion, the engine never preempts it
DecodeTokens == {Null} \cup SeqsUpTo({65, 73, 74, 121, 36}, MaxTok)

InitDecode ==
  /\ Loaded
  /\ plan = << >>
  /\ sym = NoSym
  /\ link = NoLink
  /\ pc = "decode"
  /\ input = Null
  /\ str \in DecodeTokens

NextDecode ==
  \/ DecodeStart
  \/ DecodeLoop

SpecDecode == InitDecode /\ [][NextDecode]_vars /\ WF_vars(NextDecode)

\* ------------------------------------------------- one code unit alone
\* a post of a single code unit, from both literal classes and their edges
UnitSample ==
  {0, 1, 2, 3, 65, 127, 128, 255, 256, 257, 300, 4095, 32768, 65534, 65535}

InitUnit ==
  /\ Loaded
  /\ plan = << >>
  /\ sym = NoSym
  /\ link = NoLink
  /\ pc = "encode"
  /\ input \in {<<u>> : u \in UnitSample}
  /\ str = Null

NextUnit ==
  \/ EncodeStart
  \/ EncodeLoop
  \/ EncodeFinal
  \/ EncodeEos
  \/ EncodeFlush
  \/ DeliverToken
  \/ DecodeStart
  \/ DecodeLoop

SpecUnit == InitUnit /\ [][NextUnit]_vars

\* ---------------------------------------------------- calls in sequence
\* arguments of the calls that are repeated
CallInputs == {Null} \cup SeqsUpTo({65, 300}, MaxArg)
CallTokens == {Null} \cup SeqsUpTo({73, 74, 65, 121}, MaxArg)
CallSet ==
  {[fn |-> "encode", arg |-> a] : a \in CallInputs} \cup
  {[fn |-> "decode", arg |-> a] : a \in CallTokens}

\* n copies of 'A', and the n distinct 8-bit code units 'A', 'B', ...
Copies(n) == [i \in 1..n |-> 65]
Different(n) == [i \in 1..n |-> 64 + i]

\* a token with one of its symbols replaced: t with ch at position i
Replace(t, i, ch) == [k \in 1..Len(t) |-> IF k = i THEN ch ELSE t[k]]

\* characters outside the alphabet's first 64: '$', '!' and the space
Strangers == {36, 33, 32}

\* a fragment and the same fragment with one 'A' damaged, decoded in turn
DamagePlans ==
  {<<[fn |-> "decode", arg |-> t], [fn |-> "decode", arg |-> Replace(t, i, ch)]>> :
     <<t, i, ch>> \in {x \in SeqsUpTo({65, 73, 74}, MaxTok) \X (1..MaxTok) \X Strangers :
                        x[2] <= Len(x[1]) /\ x[1][x[2]] = 65}}

\* what the page does: a call, any other call, the first call again; or the
\* encoding of a run of equal code units and of as many distinct ones
Plans ==
  {<<c, d, c>> : c \in CallSet, d \in CallSet} \cup
  {<<[fn |-> "encode", arg |-> Copies(n)],
     [fn |-> "encode", arg |-> Different(n)]>> : n \in 2..MaxRun} \cup
  DamagePlans

\* the caller invokes the next function of its plan (App.tsx line 1260,
\* userscript line 134); the locals of the last call are dead
StartCall ==
  /\ pc = "idle"
  /\ plan # << >>
  /\ plan' = Tail(plan)
  /\ IF Head(plan).fn = "encode"
       THEN /\ input' = Head(plan).arg
            /\ pc' = "encode"
            /\ wire' = << >>
            /\ token' = Null
            /\ UNCHANGED <<str, reads, bitsRead, ret>>
       ELSE /\ str' = Head(plan).arg
            /\ pc' = "decode"
            /\ reads' = << >>
            /\ bitsRead' = 0
            /\ ret' = NoReturn
            /\ UNCHANGED <<input, wire, token>>
  /\ UNCHANGED <<enc, dec, cache, calls, sym, link, page>>

\* the encoder's return value reaches the caller (line 108)
EndEncode ==
  /\ pc = "encoded"
  /\ calls' = Append(calls, [fn |-> "encode", arg |-> input,
                             result |-> [kind |-> "return", value |-> token]])
  /\ pc' = "idle"
  /\ UNCHANGED <<input, enc, wire, token, str, dec, reads, bitsRead, ret,
                 cache, plan, sym, link, page>>

\* the decoder's return value or exception reaches the caller
EndDecode ==
  /\ pc \in {"returned", "dec_throw"}
  /\ calls' = Append(calls, [fn |-> "decode", arg |-> str,
                             result |-> [kind |-> ret.kind, value |-> ret.value]])
  /\ pc' = "idle"
  /\ UNCHANGED <<input, enc, wire, token, str, dec, reads, bitsRead, ret,
                 cache, plan, sym, link, page>>

InitCalls ==
  /\ Loaded
  /\ sym = NoSym
  /\ link = NoLink
  /\ pc = "idle"
  /\ input = Null
  /\ str = Null
  /\ plan \in Plans

NextCalls ==
  \/ StartCall
  \/ EncodeStart
  \/ EncodeLoop
  \/ EncodeFinal
  \/ EncodeEos
  \/ EncodeFlush
  \/ EndEncode
  \/ DecodeStart
  \/ DecodeLoop
  \/ EndDecode

SpecCalls == InitCalls /\ [][NextCalls]_vars

\* ------------------------------------------------------ autopost script
\* parameter names and values: "pastePost", "ph", "ph_post", "ph_visit", "1"
PastePostName == <<112, 97, 115, 116, 101, 80, 111, 115, 116>>
PhName == <<112, 104>>
PhPostName == <<112, 104, 95, 112, 111, 115, 116>>
PhVisitName == <<112, 104, 95, 118, 105, 115, 105, 116>>
One == <<49>>

\* the page without query and fragment: "https://f.co/g/1"
PageBase == <<104, 116, 116, 112, 115, 58, 47, 47, 102, 46, 99, 111, 47, 103, 47, 49>>

\* tokens a link may carry: "IJA" (decodes to "A"), "ARA" (decodes to " "),
\* "A" (decodes to ''), "y" (the decoder raises)
PageTokens == { <<73, 74, 65>>, <<65, 82, 65>>, <<65>>, <<121>> }

\* the URLs the page is loaded with: no parameter; pastePost in the
\* fragment and in the query; ph=1 with ph_post in the fragment and in the
\* query; ph=1 alone; ph=2 with ph_post; ph_post alone; an empty pastePost
PageHrefs ==
  {PageBase} \cup
  UNION {{ PageBase \o <<35>> \o PastePostName \o <<61>> \o t,
           PageBase \o <<63>> \o PastePostName \o <<61>> \o t,
           PageBase \o <<35>> \o PhName \o <<61, 49, 38>> \o PhPostName \o <<61>> \o t,
           PageBase \o <<63>> \o PhName \o <<61, 49, 38>> \o PhPostName \o <<61>> \o t,
           PageBase \o <<35>> \o PhName \o <<61, 50, 38>> \o PhPostName \o <<61>> \o t,
           PageBase \o <<35>> \o PhPostName \o <<61>> \o t } : t \in PageTokens} \cup
  { PageBase \o <<35>> \o PhName \o <<61, 49>>,
    PageBase \o <<35>> \o PastePostName \o <<61>> }

\* what navigator.clipboard offers: no readText, a rejected read, or a text
\* ('' , " ", "Hi")
Clipboards ==
  { [api |-> "none", text |-> << >>], [api |-> "denied", text |-> << >>] } \cup
  { [api |-> "ok", text |-> t] : t \in { << >>, <<32>>, <<72, 105>> } }

\* white space removed by String.prototype.trim (space, tab, LF, CR)
WhiteSpace == {32, 9, 10, 13}

\* trim that removes nothing
trimNothing(s) == s

\* s.trim()
RECURSIVE trim(_)
trim(s) ==
  IF s = << >> THEN s
  ELSE IF Head(s) \in WhiteSpace THEN trim(Tail(s))
  ELSE IF s[Len(s)] \in WhiteSpace THEN trim(SubSeq(s, 1, Len(s) - 1))
  ELSE s

\* a value is truthy as a string: neither null nor ''
Truthy(x) == x # Null /\ x # << >>

\* the query of the page: search and hash without their first character,
\* joined by '&' (lines 156-167)
PageParams(href) ==
  LET segments == (IF Len(LocationSearch(href)) > 1
                     THEN <<slice1(LocationSearch(href))>> ELSE << >>)
                  \o (IF Len(LocationHash(href)) > 1
                        THEN <<slice1(LocationHash(href))>> ELSE << >>)
  IN IF segments = << >> THEN << >> ELSE URLSearchParams(joinAmp(segments))

\* extractActivationToken (lines 155-175)
extractActivationToken(href) ==
  IF PageParams(href) = << >> THEN Null
  ELSE IF Truthy(get(PageParams(href), PastePostName))
    THEN get(PageParams(href), PastePostName)
  ELSE IF get(PageParams(href), PhName) = One
    THEN get(PageParams(href), PhPostName)
  ELSE Null

\* params.delete(name)
delete(params, name) == SelectSeq(params, LAMBDA q : q.name # name)

\* application/x-www-form-urlencoded serialisation of a name or value
RECURSIVE formEncode(_)
formEncode(s) ==
  IF s = << >> THEN << >>
  ELSE (IF Head(s) = 32 THEN <<43>> ELSE encodeURIComponent(<<Head(s)>>))
       \o formEncode(Tail(s))

\* params.toString()
RECURSIVE serialize(_)
serialize(params) ==
  IF params = << >> THEN << >>
  ELSE formEncode(Head(params).name) \o <<61>> \o formEncode(Head(params).value)
       \o (IF Len(params) > 1 THEN <<38>> \o serialize(Tail(params)) ELSE << >>)

\* the three visit parameters removed from one parameter list
WithoutVisit(params) == delete(delete(delete(params, PhName), PhPostName), PhVisitName)

\* clearActivationParams (lines 177-204): the URL after history.replaceState
clearActivationParams(href) ==
  LET search   == URLSearchParams(IF LocationSearch(href) = << >> THEN << >>
                                  ELSE slice1(LocationSearch(href)))
      hash     == URLSearchParams(IF LocationHash(href) = << >> THEN << >>
                                  ELSE slice1(LocationHash(href)))
      hash1    == delete(hash, PastePostName)
      search2  == IF get(search, PhName) = One THEN WithoutVisit(search) ELSE search
      hash2    == IF get(hash1, PhName) = One THEN WithoutVisit(hash1) ELSE hash1
      end      == IF IndexOf(href, 63) # 0 /\ (IndexOf(href, 35) = 0 \/ IndexOf(href, 63) < IndexOf(href, 35))
                    THEN IndexOf(href, 63) - 1
                  ELSE IF IndexOf(href, 35) # 0 THEN IndexOf(href, 35) - 1
                  ELSE Len(href)
  IN IF search2 = search /\ hash2 = hash THEN href
     ELSE SubSeq(href, 1, end)
          \o (IF serialize(search2) # << >> THEN <<63>> \o serialize(search2) ELSE << >>)
          \o (IF serialize(hash2) # << >> THEN <<35>> \o serialize(hash2) ELSE << >>)

\* the page as the script finds it at document-idle
OpenPage(href, clip, dom) ==
  [open |-> TRUE, loaded |-> href, href |-> href, clip |-> clip, dom |-> dom,
   token |-> Null, postCopy |-> Null, filled |-> Null,
   composerClicks |-> 0, postClicks |-> 0]

\* lines 125-131: the script starts; without an activation token it returns
AutopostStart ==
  /\ pc = "ap_load"
  /\ IF Truthy(extractActivationToken(page.href))
       THEN /\ page' = [page EXCEPT !.token = extractActivationToken(page.href),
                                    !.href = clearActivationParams(page.href)]
            /\ pc' = "ap_clipboard"
       ELSE /\ page' = page
            /\ pc' = "ap_inert"
  /\ UNCHANGED <<input, enc, wire, token, str, dec, reads, bitsRead, ret, cache,
                 calls, plan, sym, link>>

\* readClipboardText (lines 214-224): '' without the API or on a failed read
readClipboardText(clip) == IF clip.api = "ok" THEN clip.text ELSE << >>

\* getPostCopy (lines 206-212) up to its return or to the call of the
\* decoder inside decodePostCopy (lines 226-231)
AutopostClipboard ==
  /\ pc = "ap_clipboard"
  /\ IF Truthy(trim(readClipboardText(page.clip)))
       THEN /\ page' = [page EXCEPT !.postCopy = readClipboardText(page.clip)]
            /\ pc' = "ap_text"
            /\ str' = str
       ELSE /\ page' = page
            /\ str' = decodeURIComponent(page.token)
            /\ pc' = "decode"
  /\ UNCHANGED <<input, enc, wire, token, dec, reads, bitsRead, ret, cache,
                 calls, plan, sym, link>>

\* the decoder's result settles the promise of getPostCopy: its value, or
\* the rejection that the catch of line 148 handles
AutopostDecoded ==
  /\ pc \in {"returned", "dec_throw"}
  /\ IF ret.kind = "throw"
       THEN /\ page' = page
            /\ pc' = "ap_failed"
       ELSE /\ page' = [page EXCEPT !.postCopy = ret.value]
            /\ pc' = "ap_text"
  /\ UNCHANGED <<input, enc, wire, token, str, dec, reads, bitsRead, ret, cache,
                 calls, plan, sym, link>>

\* lines 134-139 and ensureComposerReady (lines 234-243): blank text is an
\* error; otherwise the textbox at hand or the wait for the composer button
AutopostText ==
  /\ pc = "ap_text"
  /\ pc' = IF ~Truthy(trim(page.postCopy)) THEN "ap_failed"
           ELSE IF page.dom.textbox THEN "ap_fill"
           ELSE "ap_wait_button"
  /\ UNCHANGED <<input, enc, wire, token, str, dec, reads, bitsRead, ret, cache,
                 others>>

\* lines 239-242: the composer button is found and clicked
AutopostOpenComposer ==
  /\ pc = "ap_wait_button"
  /\ page.dom.button
  /\ page' = [page EXCEPT !.composerClicks = page.composerClicks + 1]
  /\ pc' = "ap_wait_textbox"
  /\ UNCHANGED <<input, enc, wire, token, str, dec, reads, bitsRead, ret, cache,
                 calls, plan, sym, link>>

\* line 241: the textbox is found
AutopostTextbox ==
  /\ pc = "ap_wait_textbox"
  /\ page.dom.textbox
  /\ pc' = "ap_fill"
  /\ UNCHANGED <<input, enc, wire, token, str, dec, reads, bitsRead, ret, cache,
                 others>>

\* lines 140-142 and fillComposer (lines 352-360)
AutopostFill ==
  /\ pc = "ap_fill"
  /\ page' = [page EXCEPT !.filled = page.postCopy]
  /\ pc' = "ap_submit"
  /\ UNCHANGED <<input, enc, wire, token, str, dec, reads, bitsRead, ret, cache,
                 calls, plan, sym, link>>

\* submitPost (lines 288-295): the Post button is found and clicked
AutopostSubmit ==
  /\ pc = "ap_submit"
  /\ page.dom.post
  /\ page' = [page EXCEPT !.postClicks = page.postClicks + 1]
  /\ pc' = "ap_posted"
  /\ UNCHANGED <<input, enc, wire, token, str, dec, reads, bitsRead, ret, cache,
                 calls, plan, sym, link>>

\* waitForElement's timeout (lines 341-347): the composer waits reject into
\* the catch, the wait for the Post button resolves submitPost with false
AutopostTimeout ==
  /\ \/ pc = "ap_wait_button" /\ ~page.dom.button /\ pc' = "ap_failed"
     \/ pc = "ap_wait_textbox" /\ ~page.dom.textbox /\ pc' = "ap_failed"
     \/ pc = "ap_submit" /\ ~page.dom.post /\ pc' = "ap_manual"
  /\ UNCHANGED <<input, enc, wire, token, str, dec, reads, bitsRead, ret, cache,
                 others>>

\* Facebook changes the page while the script waits: an element appears or
\* goes away
DomMutation ==
  /\ pc \in {"ap_wait_button", "ap_wait_textbox", "ap_submit"}
  /\ \E el \in {"textbox", "button", "post"} :
        page' = [page EXCEPT !.dom[el] = ~page.dom[el]]
  /\ UNCHANGED <<pc, input, enc, wire, token, str, dec, reads, bitsRead, ret, cache,
                 calls, plan, sym, link>>

InitAutopost ==
  /\ enc = EncLocals
  /\ dec = DecLocals
  /\ wire = << >>
  /\ reads = << >>
  /\ bitsRead = 0
  /\ token = Null
  /\ ret = NoReturn
  /\ cache = EmptyCache
  /\ calls = << >>
  /\ plan = << >>
  /\ sym = NoSym
  /\ link = NoLink
  /\ input = Null
  /\ str = Null
  /\ pc = "ap_load"
  /\ \E href \in PageHrefs, clip \in Clipboards,
        dom \in [{"textbox", "button", "post"} -> BOOLEAN] :
        page = OpenPage(href, clip, dom)

NextAutopost ==
  \/ AutopostStart
  \/ AutopostClipboard
  \/ DecodeStart
  \/ DecodeLoop
  \/ AutopostDecoded
  \/ AutopostText
  \/ AutopostOpenComposer
  \/ AutopostTextbox
  \/ AutopostFill
  \/ AutopostSubmit
  \/ AutopostTimeout
  \/ DomMutation

SpecAutopost == InitAutopost /\ [][NextAutopost]_vars

\* ------------------------------------------------------ autofill script
\* clearPhParameters (userscript lines 137-158): the URL after
\* history.replaceState
clearPhParameters(href) ==
  LET search   == URLSearchParams(IF LocationSearch(href) = << >> THEN << >>
                                  ELSE slice1(LocationSearch(href)))
      hash     == URLSearchParams(IF LocationHash(href) = << >> THEN << >>
                                  ELSE slice1(LocationHash(href)))
      search2  == IF get(search, PhName) = One
                    THEN delete(delete(search, PhName), PhPostName) ELSE search
      hash2    == IF get(hash, PhName) = One
                    THEN delete(delete(hash, PhName), PhPostName) ELSE hash
      end      == IF IndexOf(href, 63) # 0 /\ (IndexOf(href, 35) = 0 \/ IndexOf(href, 63) < IndexOf(href, 35))
                    THEN IndexOf(href, 63) - 1
                  ELSE IF IndexOf(href, 35) # 0 THEN IndexOf(href, 35) - 1
                  ELSE Len(href)
  IN IF search2 = search /\ hash2 = hash THEN href
     ELSE SubSeq(href, 1, end)
          \o (IF serialize(search2) # << >> THEN <<63>> \o serialize(search2) ELSE << >>)
          \o (IF serialize(hash2) # << >> THEN <<35>> \o serialize(hash2) ELSE << >>)

\* readEncodedPayload's result before it has run (lines 70-84)
NoPayload == [value |-> Null, fromUrl |-> FALSE]

\* the group page as the script finds it: its URL, the tab's sessionStorage
\* (usable or throwing on every access) and the composer elements present
GroupPage(href, usable, stored, dom) ==
  [open |-> TRUE, href |-> href, storageOk |-> usable, storage |-> stored,
   dom |-> dom, payload |-> NoPayload, postCopy |-> Null, filled |-> Null,
   triggers |-> 0]

\* clearStoredPayload (lines 102-108): removeItem, its exception swallowed
clearStoredPayload(p) == IF p.storageOk THEN [p EXCEPT !.storage = Null] ELSE p

\* init up to the call of the decoder (lines 28-36), with readEncodedPayload
\* (lines 70-84), persistPayload, getStoredPayload and decodePostCopy
AutofillInit ==
  /\ pc = "af_load"
  /\ \E fromUrl \in {extractEncodedPayload(page.href)},
        stored \in {IF page.storageOk THEN page.storage ELSE Null} :
        IF Truthy(fromUrl)
          THEN /\ page' = [page EXCEPT
                             !.storage = IF page.storageOk THEN fromUrl ELSE page.storage,
                             !.payload = [value |-> fromUrl, fromUrl |-> TRUE]]
               /\ str' = decodeURIComponent(fromUrl)
               /\ pc' = "decode"
          ELSE IF Truthy(stored)
            THEN /\ page' = [page EXCEPT
                               !.payload = [value |-> stored, fromUrl |-> FALSE]]
                 /\ str' = decodeURIComponent(stored)
                 /\ pc' = "decode"
            ELSE /\ page' = page
                 /\ str' = str
                 /\ pc' = "af_inert"
  /\ UNCHANGED <<input, enc, wire, token, dec, reads, bitsRead, ret, cache,
                 calls, plan, sym, link>>

\* init after the decoder (lines 36-52): the catch, the blank text, the URL
\* clean-up and the synchronous part of ensureComposerReady (lines 160-164)
AutofillDecoded ==
  /\ pc \in {"returned", "dec_throw"}
  /\ IF ret.kind = "throw"
       THEN /\ page' = page
            /\ pc' = "af_undecoded"
       ELSE IF ~Truthy(trim(ret.value))
         THEN /\ page' = clearStoredPayload([page EXCEPT !.postCopy = ret.value])
              /\ pc' = "af_blank"
         ELSE /\ page' = [page EXCEPT
                            !.postCopy = ret.value,
                            !.href = IF page.payload.fromUrl
                                       THEN clearPhParameters(page.href)
                                       ELSE page.href]
              /\ pc' = IF page.dom.textbox THEN "af_fill" ELSE "af_wait_button"
  /\ UNCHANGED <<input, enc, wire, token, str, dec, reads, bitsRead, ret, cache,
                 calls, plan, sym, link>>

\* lines 165-170: the composer button is found and triggered
AutofillButton ==
  /\ pc = "af_wait_button"
  /\ page.dom.button
  /\ page' = [page EXCEPT !.triggers = page.triggers + 1]
  /\ pc' = "af_wait_textbox"
  /\ UNCHANGED <<input, enc, wire, token, str, dec, reads, bitsRead, ret, cache,
                 calls, plan, sym, link>>

\* line 169: the textbox is found
AutofillTextbox ==
  /\ pc = "af_wait_textbox"
  /\ page.dom.textbox
  /\ pc' = "af_fill"
  /\ UNCHANGED <<input, enc, wire, token, str, dec, reads, bitsRead, ret, cache,
                 others>>

\* lines 55-60: the text is filled in and the stored payload removed
AutofillFill ==
  /\ pc = "af_fill"
  /\ page' = clearStoredPayload([page EXCEPT !.filled = page.postCopy])
  /\ pc' = "af_filled"
  /\ UNCHANGED <<input, enc, wire, token, str, dec, reads, bitsRead, ret, cache,
                 calls, plan, sym, link>>

\* lines 61-66 after waitForElement's timeout (lines 313-319)
AutofillTimeout ==
  /\ \/ pc = "af_wait_button" /\ ~page.dom.button
     \/ pc = "af_wait_textbox" /\ ~page.dom.textbox
  /\ page' = clearStoredPayload(page)
  /\ pc' = "af_failed"
  /\ UNCHANGED <<input, enc, wire, token, str, dec, reads, bitsRead, ret, cache,
                 calls, plan, sym, link>>

\* Facebook changes the page while the script waits
GroupDomMutation ==
  /\ pc \in {"af_wait_button", "af_wait_textbox"}
  /\ \E el \in {"textbox", "button"} :
        page' = [page EXCEPT !.dom[el] = ~page.dom[el]]
  /\ UNCHANGED <<pc, input, enc, wire, token, str, dec, reads, bitsRead, ret, cache,
                 calls, plan, sym, link>>

InitAutofill ==
  /\ enc = EncLocals
  /\ dec = DecLocals
  /\ wire = << >>
  /\ reads = << >>
  /\ bitsRead = 0
  /\ token = Null
  /\ ret = NoReturn
  /\ cache = EmptyCache
  /\ calls = << >>
  /\ plan = << >>
  /\ sym = NoSym
  /\ link = NoLink
  /\ input = Null
  /\ str = Null
  /\ pc = "af_load"
  /\ \E href \in PageHrefs, usable \in BOOLEAN, stored \in {Null} \cup PageTokens,
        dom \in [{"textbox", "button"} -> BOOLEAN] :
        /\ (~usable => stored = Null)
        /\ page = GroupPage(href, usable, stored, dom)

\* the steps of the script itself; timers fire, so a wait always ends
AutofillRun ==
  \/ AutofillInit
  \/ DecodeStart
  \/ DecodeLoop
  \/ AutofillDecoded
  \/ AutofillButton
  \/ AutofillTextbox
  \/ AutofillFill
  \/ AutofillTimeout

NextAutofill ==
  \/ AutofillRun
  \/ GroupDomMutation

SpecAutofill == InitAutofill /\ [][NextAutofill]_vars /\ WF_vars(AutofillRun)

\* ----------------------------------------------------- waitForElement
\* waitForElement of the userscript (lines 271-321) and of the autopost
\* script (pasteHappyEncode.ts lines 314-350), one call of it: the getter
\* returns the element the page currently shows, or null
MaxMutations == 3
MaxTicks == 2
NoElement == 0
Elements == {1, 2}

\* cleanup that leaves the timeout armed
cleanupKeepTimeout(w) ==
  [w EXCEPT !.done = TRUE, !.observing = FALSE, !.records = FALSE,
            !.interval = FALSE]

\* cleanup (lines 282-291; 323-327): done, observer.disconnect(),
\* clearInterval, clearTimeout; a disconnected observer drops its records
cleanup(w) ==
  [w EXCEPT !.done = TRUE, !.observing = FALSE, !.records = FALSE,
            !.interval = FALSE, !.timeout = FALSE]

\* getter(): the call is counted and its result remembered
getter(w) == [w EXCEPT !.results = Append(w.results, w.element)]

\* one call about to be made: which script, whether MutationObserver and
\* document.body exist, and what the page shows
Waiting(script, observable, element) ==
  [open |-> TRUE, script |-> script, observable |-> observable,
   element |-> element, done |-> FALSE, observing |-> FALSE,
   records |-> FALSE, interval |-> FALSE, timeout |-> FALSE,
   results |-> << >>, resolved |-> << >>, rejected |-> 0,
   mutations |-> 0, ticks |-> 0]

\* the executor (lines 272-320; 315-349): the element is there at once, or
\* the observer (else the interval) and the timeout are set up
WaitStart ==
  /\ pc = "wf_call"
  /\ LET w == getter(page)
     IN IF w.element # NoElement
          THEN /\ page' = [w EXCEPT !.resolved = Append(w.resolved, w.element)]
               /\ pc' = "wf_returned"
          ELSE /\ page' = [w EXCEPT !.observing = w.observable,
                                    !.interval = ~w.observable,
                                    !.timeout = TRUE]
               /\ pc' = "wf_returned"
  /\ UNCHANGED <<input, enc, wire, token, str, dec, reads, bitsRead, ret, cache,
                 calls, plan, sym, link>>

\* watchForCandidate (lines 293-303; 329-338) once it runs
watchForCandidate(w) ==
  IF w.done THEN w
  ELSE LET g == getter(w)
       IN IF g.element # NoElement
            THEN [cleanup(g) EXCEPT !.resolved = Append(g.resolved, g.element)]
            ELSE g

\* the observer delivers its mutation records
WaitObserver ==
  /\ pc = "wf_returned"
  /\ page.observing /\ page.records
  /\ page' = watchForCandidate([page EXCEPT !.records = FALSE])
  /\ UNCHANGED <<pc, input, enc, wire, token, str, dec, reads, bitsRead, ret, cache,
                 calls, plan, sym, link>>

\* the 250 ms interval of the userscript fires (lines 310-312)
WaitInterval ==
  /\ pc = "wf_returned"
  /\ page.interval
  /\ page.ticks < MaxTicks
  /\ page' = watchForCandidate([page EXCEPT !.ticks = page.ticks + 1])
  /\ UNCHANGED <<pc, input, enc, wire, token, str, dec, reads, bitsRead, ret, cache,
                 calls, plan, sym, link>>

\* the timeout fires (lines 313-319; 342-348)
WaitTimeout ==
  /\ pc = "wf_returned"
  /\ page.timeout
  /\ LET w == [page EXCEPT !.timeout = FALSE]
     IN page' = IF w.done THEN w
                ELSE [cleanup(w) EXCEPT !.rejected = w.rejected + 1]
  /\ UNCHANGED <<pc, input, enc, wire, token, str, dec, reads, bitsRead, ret, cache,
                 calls, plan, sym, link>>

\* the page changes what the getter would find; an observing observer
\* queues a record
WaitMutation ==
  /\ pc = "wf_returned"
  /\ page.mutations < MaxMutations
  /\ \E el \in {NoElement} \cup Elements :
        /\ el # page.element
        /\ page' = [page EXCEPT !.element = el,
                                !.records = page.observing,
                                !.mutations = page.mutations + 1]
  /\ UNCHANGED <<pc, input, enc, wire, token, str, dec, reads, bitsRead, ret, cache,
                 calls, plan, sym, link>>

InitWait ==
  /\ enc = EncLocals
  /\ dec = DecLocals
  /\ wire = << >>
  /\ reads = << >>
  /\ bitsRead = 0
  /\ token = Null
  /\ ret = NoReturn
  /\ cache = EmptyCache
  /\ calls = << >>
  /\ plan = << >>
  /\ sym = NoSym
  /\ link = NoLink
  /\ input = Null
  /\ str = Null
  /\ pc = "wf_call"
  /\ \E script \in {"userscript", "autopost"}, observable \in BOOLEAN,
        element \in {NoElement} \cup Elements :
        /\ (script = "autopost" => observable)
        /\ page = Waiting(script, observable, element)

NextWait ==
  \/ WaitStart
  \/ WaitObserver
  \/ WaitInterval
  \/ WaitTimeout
  \/ WaitMutation

\* the executor runs and an armed timer fires
SpecWait ==
  InitWait /\ [][NextWait]_vars /\ WF_vars(WaitStart) /\ WF_vars(WaitTimeout)

\* ------------------------------------------- status-tracking queue app
\* InnerApp of App.tsx lines 83-694: state.rows, state.currentId, and the
\* Copy & Open calls whose clipboard promise has not settled yet
MaxRows == 2
MaxInFlight == 1
RowIds == 1..MaxRows
NoRow == 0

QueueRows(ids) == [id : ids, status : {"pending", "posted"}, ad : BOOLEAN, undo : {FALSE}]

\* the CSV files: one to MaxRows entries with ids of their own
Entries ==
  UNION {{e \in [1..n -> QueueRows(RowIds)] :
            \A i, j \in 1..n : i # j => e[i].id # e[j].id} : n \in 1..MaxRows}

hasRow(rows, id) == \E i \in 1..Len(rows) : rows[i].id = id

\* setCurrentToFirstPending (lines 120-126)
setCurrentToFirstPending(rows) ==
  IF \E i \in 1..Len(rows) : rows[i].status = "pending"
    THEN rows[CHOOSE i \in 1..Len(rows) :
                /\ rows[i].status = "pending"
                /\ \A j \in 1..(i - 1) : rows[j].status # "pending"].id
  ELSE IF rows # << >> THEN rows[1].id
  ELSE NoRow

\* findNextPendingId (lines 158-172): the first pending row after afterId,
\* going round
findNextPendingId(rows, afterId) ==
  IF ~\E i \in 1..Len(rows) : rows[i].status = "pending" THEN NoRow
  ELSE LET n          == Len(rows)
           startIndex == IF afterId # NoRow /\ hasRow(rows, afterId)
                           THEN (CHOOSE i \in 1..n : rows[i].id = afterId) - 1
                           ELSE 0 - 1
           at(offset) == ((startIndex + offset) % n) + 1
           first      == CHOOSE offset \in 1..n :
                           /\ rows[at(offset)].status = "pending"
                           /\ \A o \in 1..(offset - 1) : rows[at(o)].status # "pending"
       IN rows[at(first)].id

\* setRowStatus (lines 174-194) with advance = true
setRowStatus(s, id, status) ==
  LET rows == [i \in 1..Len(s.rows) |->
                 IF s.rows[i].id # id THEN s.rows[i]
                 ELSE [s.rows[i] EXCEPT !.status = status, !.undo = TRUE]]
  IN [s EXCEPT !.rows = rows, !.currentId = findNextPendingId(rows, id)]

QueueUnchanged ==
  UNCHANGED <<pc, input, enc, wire, token, str, dec, reads, bitsRead, ret, cache,
              calls, plan, sym, link>>

\* handleImport (lines 314-360)
QueueImport ==
  /\ pc = "queue"
  /\ \E merged \in Entries :
        page' = [page EXCEPT
                   !.rows = merged,
                   !.currentId = IF page.currentId # NoRow /\ hasRow(merged, page.currentId)
                                   THEN page.currentId
                                   ELSE setCurrentToFirstPending(merged)]
  /\ QueueUnchanged

\* handleSetCurrent (lines 447-449) on a row on screen
QueueSelect ==
  /\ pc = "queue"
  /\ \E i \in 1..Len(page.rows) :
        page' = [page EXCEPT !.currentId = page.rows[i].id]
  /\ QueueUnchanged

\* handleCopyAndOpen up to its await (lines 220-226)
QueueCopy ==
  /\ pc = "queue"
  /\ Cardinality(page.copying) < MaxInFlight
  /\ \E i \in 1..Len(page.rows) :
        /\ page.rows[i].id \notin page.copying
        /\ page' = IF ~page.rows[i].ad THEN page
                   ELSE [page EXCEPT !.copying = page.copying \cup {page.rows[i].id}]
  /\ QueueUnchanged

\* handleCopyAndOpen after its await (lines 227-239)
QueueCopied ==
  /\ pc = "queue"
  /\ \E id \in page.copying :
        page' = [page EXCEPT !.currentId = id, !.copying = page.copying \ {id}]
  /\ QueueUnchanged

\* handlePosted (lines 265-271) and handleSkip (lines 244-250)
QueueMark ==
  /\ pc = "queue"
  /\ \E i \in 1..Len(page.rows), status \in {"posted", "skipped"} :
        page' = setRowStatus(page, page.rows[i].id, status)
  /\ QueueUnchanged

\* handleUndo (lines 196-217), offered while the undo window is open
QueueUndo ==
  /\ pc = "queue"
  /\ \E i \in 1..Len(page.rows) :
        /\ page.rows[i].undo
        /\ page' = [page EXCEPT
                      !.rows[i] = [page.rows[i] EXCEPT !.status = "pending", !.undo = FALSE],
                      !.currentId = page.rows[i].id]
  /\ QueueUnchanged

\* the timer of scheduleUndoExpiry (lines 146-152)
QueueUndoExpiry ==
  /\ pc = "queue"
  /\ \E i \in 1..Len(page.rows) :
        /\ page.rows[i].undo
        /\ page' = [page EXCEPT !.rows[i] = [page.rows[i] EXCEPT !.undo = FALSE]]
  /\ QueueUnchanged

\* handleDelete (lines 252-263)
QueueDelete ==
  /\ pc = "queue"
  /\ \E i \in 1..Len(page.rows) :
        LET id        == page.rows[i].id
            remaining == SelectSeq(page.rows, LAMBDA r : r.id # id)
            nextId    == findNextPendingId(remaining, id)
        IN page' = [page EXCEPT
                      !.rows = remaining,
                      !.currentId = IF nextId # NoRow THEN nextId
                                    ELSE setCurrentToFirstPending(remaining)]
  /\ QueueUnchanged

\* handleReset (lines 273-279)
QueueReset ==
  /\ pc = "queue"
  /\ page' = [page EXCEPT !.rows = << >>, !.currentId = NoRow]
  /\ QueueUnchanged

InitQueue ==
  /\ enc = EncLocals
  /\ dec = DecLocals
  /\ wire = << >>
  /\ reads = << >>
  /\ bitsRead = 0
  /\ token = Null
  /\ ret = NoReturn
  /\ cache = EmptyCache
  /\ calls = << >>
  /\ plan = << >>
  /\ sym = NoSym
  /\ link = NoLink
  /\ input = Null
  /\ str = Null
  /\ pc = "queue"
  /\ page = [open |-> TRUE, rows |-> << >>, currentId |-> NoRow, copying |-> {}]

NextQueue ==
  \/ QueueImport
  \/ QueueSelect
  \/ QueueCopy
  \/ QueueCopied
  \/ QueueMark
  \/ QueueUndo
  \/ QueueUndoExpiry
  \/ QueueDelete
  \/ QueueReset

SpecQueue == InitQueue /\ [][NextQueue]_vars

\* ------------------------------------------------- cooldown queue app
\* InnerApp of App.tsx lines 1103-1850: state.rows, state.queue (order,
\* cursor, tag filter) and the Copy & Open calls whose clipboard promise has
\* not settled. A row keeps its id, its status type and whether it carries
\* the filtered tag; `by` is the Copy & Open that wrote 'copied' (0: none).
MaxCopies == 2

GroupRows(ids, statuses) ==
  [id : ids, status : statuses, tagged : BOOLEAN, by : {0}]

\* the CSV files: one to MaxRows entries with ids of their own
CooldownEntries ==
  UNION {{e \in [1..n -> GroupRows(RowIds, {"pending", "verified"})] :
            \A i, j \in 1..n : i # j => e[i].id # e[j].id} : n \in 1..MaxRows}

\* rows.map((row) => row.id)
rowIds(rows) == [i \in 1..Len(rows) |-> rows[i].id]

Min(a, b) == IF a < b THEN a ELSE b
Max(a, b) == IF a > b THEN a ELSE b

\* computeActiveOrder (lines 1921-1929)
computeActiveOrder(rows, order) ==
  IF order = << >> THEN rowIds(rows)
  ELSE LET deduped == SelectSeq(order, LAMBDA id : hasRow(rows, id))
           missing == SelectSeq(rowIds(rows),
                                LAMBDA id : ~\E k \in 1..Len(deduped) : deduped[k] = id)
       IN deduped \o missing

\* rows.find((item) => item.id === id), for an id that is present
find(rows, id) == rows[CHOOSE i \in 1..Len(rows) :
                         rows[i].id = id /\ \A j \in 1..(i - 1) : rows[j].id # id]

\* computeFilteredOrder (lines 1931-1942) with the tag filter on or off
computeFilteredOrder(s) ==
  SelectSeq(computeActiveOrder(s.rows, s.order),
            LAMBDA id : hasRow(s.rows, id) /\ (~s.filter \/ find(s.rows, id).tagged))

\* currentRow (lines 1147-1152): its id, or none
currentRow(s) ==
  LET filteredOrder == computeFilteredOrder(s)
  IN IF filteredOrder = << >> THEN NoRow
     ELSE filteredOrder[Min(s.cursor, Len(filteredOrder) - 1) + 1]

\* findNextEligibleIndex (lines 1869-1881), no cooldown running
findNextEligibleIndex(order, start, rows) ==
  LET n           == Len(order)
      at(offset)  == ((start + offset) % n) + 1
      ok(offset)  == /\ hasRow(rows, order[at(offset)])
                     /\ find(rows, order[at(offset)]).status \notin {"verified", "failed"}
  IN IF n = 0 THEN 0
     ELSE IF \E offset \in 1..n : ok(offset)
       THEN at(CHOOSE offset \in 1..n : ok(offset) /\ \A o \in 1..(offset - 1) : ~ok(o)) - 1
     ELSE Min(start, n - 1)

\* advanceCursor (lines 1198-1217)
advanceCursor(s) ==
  LET order == computeFilteredOrder(s)
  IN [s EXCEPT !.cursor = IF order = << >> THEN 0
                          ELSE findNextEligibleIndex(order, s.cursor, s.rows)]

\* the effect of lines 1154-1163, run when the render after a handler
\* finds activeOrder.length changed
render(prev, next) ==
  LET activeOrder == computeActiveOrder(next.rows, next.order)
  IN IF Len(activeOrder) = Len(computeActiveOrder(prev.rows, prev.order)) THEN next
     ELSE [next EXCEPT !.order = activeOrder,
                       !.cursor = Min(next.cursor, Max(Len(activeOrder) - 1, 0))]

\* updateRow (lines 1191-1196) writing a status
updateRow(s, id, status, by) ==
  [s EXCEPT !.rows = [i \in 1..Len(s.rows) |->
                        IF s.rows[i].id = id
                          THEN [s.rows[i] EXCEPT !.status = status, !.by = by]
                          ELSE s.rows[i]]]

\* the skipped id appended without being taken out
moveToBackKeep(order, id) == Append(order, id)

\* lines 1320-1321: the id taken out and pushed at the end
moveToBack(order, id) == Append(SelectSeq(order, LAMBDA item : item # id), id)

\* the orderings of a list: shuffleWithSeed (lines 1909-1919) is a
\* Fisher-Yates pass whose swaps depend on the clock
Shuffles(ids) ==
  {[i \in 1..Len(ids) |-> ids[p[i]]] :
     p \in {q \in [1..Len(ids) -> 1..Len(ids)] :
              \A i, j \in 1..Len(ids) : i # j => q[i] # q[j]}}

\* importRows (lines 1433-1491)
CooldownImport ==
  /\ pc = "cooldown"
  /\ \E merged \in CooldownEntries :
        page' = render(page, [page EXCEPT !.rows = merged,
                                          !.order = rowIds(merged),
                                          !.cursor = 0])
  /\ QueueUnchanged

\* handleManualAdd (lines 1533-1554): createId() is an id not in use
CooldownAdd ==
  /\ pc = "cooldown"
  /\ \E id \in RowIds :
        /\ ~hasRow(page.rows, id)
        /\ \A k \in 1..Len(page.order) : page.order[k] # id
        /\ \E tagged \in BOOLEAN :
              page' = render(page,
                        [page EXCEPT
                           !.rows = Append(page.rows, [id |-> id, status |-> "pending",
                                                       tagged |-> tagged, by |-> 0]),
                           !.order = Append(page.order, id)])
  /\ QueueUnchanged

\* handleSkip (lines 1314-1333)
CooldownSkip ==
  /\ pc = "cooldown"
  /\ currentRow(page) # NoRow
  /\ LET id        == currentRow(page)
         baseOrder == IF page.order # << >> THEN page.order ELSE rowIds(page.rows)
         nextOrder == moveToBack(baseOrder, id)
     IN page' = render(page,
                  advanceCursor([page EXCEPT
                                   !.order = nextOrder,
                                   !.cursor = Min(page.cursor, Max(Len(nextOrder) - 1, 0))]))
  /\ QueueUnchanged

\* handleShuffle (lines 1423-1431)
CooldownShuffle ==
  /\ pc = "cooldown"
  /\ \E shuffled \in Shuffles(computeFilteredOrder(page)) :
        page' = render(page, [page EXCEPT !.order = shuffled, !.cursor = 0])
  /\ QueueUnchanged

\* handleTagFilterToggle (lines 1405-1414)
CooldownFilter ==
  /\ pc = "cooldown"
  /\ page' = [page EXCEPT !.filter = ~page.filter, !.cursor = 0]
  /\ QueueUnchanged

\* handleCopyAndOpen up to its second await (lines 1219-1269)
CooldownCopy ==
  /\ pc = "cooldown"
  /\ currentRow(page) # NoRow
  /\ page.copies < MaxCopies
  /\ Cardinality(page.flying) < MaxInFlight
  /\ \E url \in BOOLEAN :
        LET id     == currentRow(page)
            ticket == page.copies + 1
        IN page' = [updateRow(page, id, "copied", ticket) EXCEPT
                      !.copies = ticket,
                      !.flying = page.flying \cup {[id |-> id, url |-> url, ticket |-> ticket]}]
  /\ QueueUnchanged

\* handleCopyAndOpen after its second await (lines 1269-1280)
CooldownCopied ==
  /\ pc = "cooldown"
  /\ \E f \in page.flying, success \in BOOLEAN :
        LET landed == [page EXCEPT !.flying = page.flying \ {f}]
            found  == [ticket |-> f.ticket,
                       status |-> find(page.rows, f.id).status,
                       by     |-> find(page.rows, f.id).by]
        IN page' = IF ~hasRow(page.rows, f.id) \/ (success /\ ~f.url) THEN landed
                   ELSE [updateRow(landed, f.id, IF success THEN "opened" ELSE "failed", 0)
                           EXCEPT !.written = <<found>>]
  /\ QueueUnchanged

\* handleMarkPosted (lines 1288-1312), queue not paused
CooldownMarkPosted ==
  /\ pc = "cooldown"
  /\ currentRow(page) # NoRow
  /\ page' = advanceCursor(updateRow(page, currentRow(page), "verified", 0))
  /\ QueueUnchanged

\* handleFailRow (lines 1351-1362), queue not paused
CooldownFail ==
  /\ pc = "cooldown"
  /\ \E i \in 1..Len(page.rows) :
        LET failed == updateRow(page, page.rows[i].id, "failed", 0)
        IN page' = IF currentRow(page) = page.rows[i].id THEN advanceCursor(failed)
                   ELSE failed
  /\ QueueUnchanged

\* handleRetry (lines 1335-1349)
CooldownRetry ==
  /\ pc = "cooldown"
  /\ \E i \in 1..Len(page.rows) :
        page' = updateRow(page, page.rows[i].id, "pending", 0)
  /\ QueueUnchanged

InitCooldown ==
  /\ enc = EncLocals
  /\ dec = DecLocals
  /\ wire = << >>
  /\ reads = << >>
  /\ bitsRead = 0
  /\ token = Null
  /\ ret = NoReturn
  /\ cache = EmptyCache
  /\ calls = << >>
  /\ plan = << >>
  /\ sym = NoSym
  /\ link = NoLink
  /\ input = Null
  /\ str = Null
  /\ pc = "cooldown"
  /\ page = [open |-> TRUE, rows |-> << >>, order |-> << >>, cursor |-> 0,
             filter |-> FALSE, flying |-> {}, copies |-> 0, written |-> << >>]

\* the queue being filled and reordered
NextCooldown ==
  \/ CooldownImport
  \/ CooldownAdd
  \/ CooldownSkip
  \/ CooldownShuffle
  \/ CooldownFilter

SpecCooldown == InitCooldown /\ [][NextCooldown]_vars

\* the app opened on a queue saved earlier (loadState, lines 1106-1122)
InitCooldownCopy ==
  /\ enc = EncLocals
  /\ dec = DecLocals
  /\ wire = << >>
  /\ reads = << >>
  /\ bitsRead = 0
  /\ token = Null
  /\ ret = NoReturn
  /\ cache = EmptyCache
  /\ calls = << >>
  /\ plan = << >>
  /\ sym = NoSym
  /\ link = NoLink
  /\ input = Null
  /\ str = Null
  /\ pc = "cooldown"
  /\ \E saved \in CooldownEntries :
        page = [open |-> TRUE, rows |-> saved, order |-> rowIds(saved), cursor |-> 0,
                filter |-> FALSE, flying |-> {}, copies |-> 0, written |-> << >>]

\* the queue being worked through
NextCooldownCopy ==
  \/ CooldownSkip
  \/ CooldownCopy
  \/ CooldownCopied
  \/ CooldownMarkPosted
  \/ CooldownFail
  \/ CooldownRetry

SpecCooldownCopy == InitCooldownCopy /\ [][NextCooldownCopy]_vars

\* ----------------------------------------------------------- properties
\* the decoder was handed the whole token the encoder returned for a string
FullDelivery ==
  /\ input # Null
  /\ token # Null
  /\ pc \in {"decode", "dec_loop", "returned", "dec_throw"}
  /\ str = decodeURIComponent(token)

Finished == pc \in {"returned", "dec_throw"}

\* the return statements that report a failure (lines 497 and 567)
FailureExits == {"exhausted", "unresolved"}

\* C1: round trip - decoding the percent-unescaped token of a string s
\* returns exactly s.
C1_RoundTrip ==
  (FullDelivery /\ Finished) => (ret.kind = "return" /\ ret.value = input)

\* C2: growth-schedule lock-step - the k-th code is read by the decoder at
\* the width at which the encoder wrote its k-th code.
C2_LockStep ==
  (FullDelivery /\ input # << >>) =>
     \A k \in 1..Len(wire) : k <= Len(reads) => reads[k].bits = wire[k].bits

\* C3: a decoder that needs a bit beyond the last input symbol before it has
\* read an end-of-stream marker ends in the failure result, never in text;
\* in particular for a non-empty proper prefix of an encoder token.
C3_TruncatedFails ==
  (pc = "returned" /\ str \notin {Null, << >>} /\ bitsRead > 6 * Len(str)) =>
     ret.at \in FailureExits

\* C4: a decode failure is reported with a result that differs from the
\* result of decoding the token of the empty string (which is '').
C4_FailureDistinct ==
  (pc = "returned" /\ ret.at \in FailureExits) => ret.value # << >>

\* C5: a leading 2-bit marker other than 0, 1, 2 stops the decoder with a
\* failure and no decoded text, whatever follows.
C5_InvalidMarkerFails ==
  (Len(reads) >= 1 /\ reads[1].value \notin {0, 1, 2}) =>
     (pc = "returned" /\ ret.at \in FailureExits /\ Len(reads) = 1)

\* C6: dictionary agreement - a code N >= 3 assigned on both sides denotes
\* the same string in the encoder's and in the decoder's dictionary.
C6_DictionaryAgreement ==
  FullDelivery =>
     \A k \in DOMAIN enc.dictionary :
        enc.dictionary[k] \in DOMAIN dec.dictionary =>
           dec.dictionary[enc.dictionary[k]] = k

\* C7: on the wire the value 2 occurs exactly once, as the last code; no
\* earlier code carries the value 2 at its width.
C7_SingleEos ==
  (pc = "encoded" /\ wire # << >>) =>
     /\ wire[Len(wire)].value % Pow2(wire[Len(wire)].bits) = 2
     /\ \A k \in 1..(Len(wire) - 1) : wire[k].value % Pow2(wire[k].bits) # 2

\* the encoder is about to write w (line 42 or line 72 is reached)
EmissionDue ==
  /\ pc = "enc_loop"
  /\ IF enc.ii < Len(input)
       THEN LET c == charAt(input, enc.ii)
            IN ~has(AddChar(enc, c).dictionary, AddChar(enc, c).w \o c)
       ELSE enc.w # << >>

\* C8: the encoder never raises 'Unexpected missing dictionary entry': at
\* every emission w is a non-empty key of the dictionary.
C8_EncoderTotal ==
  /\ pc # "enc_throw"
  /\ EmissionDue => (enc.w # << >> /\ has(enc.dictionary, enc.w))

C8_Witness ==
  /\ pc = "encoded"
  /\ \E k \in 1..Len(wire) : wire[k].kind = "code"
  /\ \E k \in 1..Len(wire) : wire[k].kind = "literal"

\* C9: encoding "A" yields "IJA": marker 0 in 2 bits, 65 in 8 bits, the
\* end-of-stream marker, then one padding symbol.
C9_EncodeA ==
  (pc = "encoded" /\ input = <<65>>) =>
     /\ token = <<73, 74, 65>>
     /\ wire = <<[value |-> 0, bits |-> 2, kind |-> "literal"],
                 [value |-> 2, bits |-> 2, kind |-> "eos"]>>
     /\ enc.state.bitCount = 6 /\ enc.state.buffer = 0

C9_Witness == pc = "encoded" /\ input = <<65>> /\ Len(token) = 3

\* C10: empty short-circuits - an empty or absent input gives the empty
\* token with no code written; an empty or absent token gives the empty
\* string with no bit read.
C10_EmptyShortCircuit ==
  /\ (input \in {Null, << >>} /\ pc \notin {"encode", "decode", "dec_loop", "returned", "dec_throw"})
        => (pc = "encoded" /\ token = << >> /\ wire = << >> /\ enc.output = << >>)
  /\ (str \in {Null, << >>} /\ pc \notin {"encode", "enc_loop", "enc_eos", "enc_flush", "encoded", "decode"})
        => (pc = "returned" /\ ret = Return(<< >>, "empty")
            /\ bitsRead = 0 /\ reads = << >>)

C10_Witness ==
  /\ pc = "returned"
  /\ input = << >>
  /\ token = << >>
  /\ str = << >>
  /\ ret.value = << >>

\* C11: bit-order agreement - what pushBits wrote and the padding flushed,
\* the decoder's bit reader returns, each value modulo 2^width.
C11_BitOrder ==
  \A k \in 1..Len(reads) :
     /\ k <= Len(wire)
     /\ reads[k].bits = wire[k].bits
     /\ reads[k].value = wire[k].value % Pow2(wire[k].bits)

C11_Witness ==
  /\ pc = "bits_read"
  /\ Len(wire) = 2 /\ Len(reads) = 2
  /\ wire[1].bits = 3 /\ wire[1].value = 5
  /\ wire[2].bits = 8 /\ wire[2].value = 300
  /\ reads[2].value = 44

\* C12: alphabet agreement - the character the encoder emits for an index
\* in 0..63 is mapped back to that index by the decoder's reverse lookup.
C12_AlphabetAgreement ==
  (pc = "sym_done" /\ sym.index \in 0..63) => sym.value = sym.index

C12_Witness ==
  pc = "sym_done" /\ sym.index = 62 /\ sym.char = <<43>> /\ sym.value = 62

Distinct(s) == \A i, j \in 1..Len(s) : s[i] = s[j] => i = j

\* C13 as stated: the alphabet has exactly 64 distinct characters and the
\* lookup returns a value in 0..63 for every character of the alphabet.
C13_Alphabet64 ==
  pc = "sym_done" =>
     (Len(alphabet) = 64 /\ Distinct(alphabet) /\ sym.value \in 0..63)

\* C13 amended: the alphabet has exactly 65 distinct characters; the lookup
\* returns a value in 0..64 for every one of them, 64 only for the last, '$'.
C13_Alphabet65 ==
  pc = "sym_done" =>
     /\ Len(alphabet) = 65
     /\ Distinct(alphabet)
     /\ sym.value \in 0..64
     /\ (sym.value = 64) <=> (sym.char = <<36>>)

C13_Witness ==
  pc = "sym_done" /\ sym.index = 64 /\ sym.char = <<36>> /\ sym.value = 64

\* the decoder has taken a non-empty argument through line 420
Ingested == pc \in {"dec_loop", "returned", "dec_throw"} /\ str \notin {Null, << >>}

\* C14 as stated: every literal '+' of the percent-unescaped value is a
\* space when the string reaches the decoder's lookup.
C14_PlusToSpace ==
  Ingested => \A i \in 1..Len(str) : str[i] = 43 => dec.str[i] = 32

\* C14 amended: every space of the percent-unescaped value is a '+' when
\* the string reaches the lookup; every other character, '+' included, is
\* unchanged.
C14_SpaceToPlus ==
  Ingested =>
     /\ Len(dec.str) = Len(str)
     /\ \A i \in 1..Len(str) :
           dec.str[i] = (IF str[i] = 32 THEN 43 ELSE str[i])

C14_Witness ==
  /\ Ingested
  /\ \E i, j \in 1..Len(str) :
        str[i] = 32 /\ str[j] = 43 /\ dec.str[i] = 43 /\ dec.str[j] = 43

\* C15: transport round trip - the string fed to the decoder after the
\* userscript extracted ph_post from the link the app built, unescaped it
\* and normalised spaces, is the symbol string the link was built from.
C15_TransportRoundTrip ==
  pc = "link_done" => link.fed = link.payload

C15_Witness ==
  /\ pc = "link_done"
  /\ \E i \in 1..Len(link.payload) : link.payload[i] = 43
  /\ \E i \in 1..Len(link.url) : link.url[i] = 35
  /\ link.fed = link.payload

\* C16: determinism - in any sequence of calls, two calls of the same
\* function with the same argument return the same; the reverse-lookup
\* table kept from an earlier call changes no result.
C16_Deterministic ==
  \A i, j \in 1..Len(calls) :
     (calls[i].fn = calls[j].fn /\ calls[i].arg = calls[j].arg)
        => calls[i].result = calls[j].result

C16_Witness ==
  /\ Len(calls) = 3
  /\ calls[1].fn = "decode" /\ calls[1].arg = <<73, 74>>
  /\ calls[2].fn = "encode" /\ calls[2].arg = <<65, 300>>
  /\ calls[3] = calls[1]
  /\ calls[1].result.value = <<65>>

\* C17: the decoder terminates on every symbol string - the call ends with
\* a return or an exception; an iteration that reads at all reads at least
\* 3 bits; an iteration that starts with the symbol index past the input
\* length ends the loop.
C17_DecoderTerminates ==
  /\ <>(pc \in {"returned", "dec_throw"})
  /\ [][(pc = "dec_loop" /\ reads' # reads) => bitsRead' >= bitsRead + 3]_vars
  /\ [][(pc = "dec_loop" /\ dec.data.index > dec.length)
          => (pc' = "returned" /\ reads' = reads)]_vars

C17_Witness ==
  /\ pc = "returned"
  /\ ret.at = "exhausted"
  /\ Len(str) = MaxTok
  /\ dec.data.index = dec.length + 1
  /\ Len(dec.result) >= 2

\* C18: dictionary reuse shortens the token - for every n from 2 up to the
\* bound, the token for n copies of one 8-bit code unit has strictly fewer
\* symbols than the token for n pairwise distinct 8-bit code units.
EightBit(s) == \A k \in 1..Len(s) : s[k] \in 0..255
OneRepeated(s) == \A k \in 1..Len(s) : s[k] = s[1]
SymbolCount(call) == Len(decodeURIComponent(call.result.value))

C18_ReuseShortens ==
  \A i, j \in 1..Len(calls) :
     ( /\ calls[i].fn = "encode" /\ calls[j].fn = "encode"
       /\ Len(calls[i].arg) >= 2 /\ Len(calls[j].arg) = Len(calls[i].arg)
       /\ EightBit(calls[i].arg) /\ OneRepeated(calls[i].arg)
       /\ EightBit(calls[j].arg) /\ Distinct(calls[j].arg) )
     => SymbolCount(calls[i]) < SymbolCount(calls[j])

C18_Witness ==
  /\ Len(calls) = 2
  /\ calls[1].arg = Copies(MaxRun)
  /\ calls[2].arg = Different(MaxRun)
  /\ SymbolCount(calls[1]) = 4
  /\ SymbolCount(calls[2]) = 2 * MaxRun

\* C20: no code is truncated on the wire - every dictionary code the encoder
\* writes, in the main loop or for the final match, is smaller than
\* 2^numBits at the moment it is written.
C20_NoTruncation ==
  \A k \in 1..Len(wire) :
     wire[k].kind = "code" => wire[k].value < Pow2(wire[k].bits)

\* C21: self-referential code - whenever the main loop reads a non-reserved
\* code equal to the current dictSize, it outputs w followed by the first
\* character of w, stores that string at index dictSize and goes on decoding.
C21_SelfReference ==
  [][ ( /\ pc = "dec_loop"
        /\ Len(reads') = Len(reads) + 1
        /\ reads'[Len(reads')].value >= 3
        /\ reads'[Len(reads')].value = dec.dictSize )
      => ( /\ pc' = "dec_loop"
           /\ dec'.result = Append(dec.result, dec.w \o SubSeq(dec.w, 1, 1))
           /\ dec.dictSize \in DOMAIN dec'.dictionary
           /\ dec'.dictionary[dec.dictSize] = dec.w \o SubSeq(dec.w, 1, 1)
           /\ dec'.dictSize = dec.dictSize + 1 ) ]_vars

\* C22: unresolved code - whenever the main loop reads a non-reserved code
\* that has no dictionary entry and is not dictSize, decoding stops at once
\* with the failure result; none of the text collected so far is returned.
C22_UnresolvedFails ==
  [][ ( /\ pc = "dec_loop"
        /\ Len(reads') = Len(reads) + 1
        /\ reads'[Len(reads')].value >= 3
        /\ reads'[Len(reads')].value \notin DOMAIN dec.dictionary
        /\ reads'[Len(reads')].value # dec.dictSize )
      => ( /\ pc' = "returned"
           /\ ret'.kind = "return"
           /\ ret'.value = << >>
           /\ dec'.result = dec.result ) ]_vars

C22_Witness ==
  /\ pc = "returned"
  /\ ret.at = "unresolved"
  /\ ret.value = << >>
  /\ Len(dec.result) >= 2
  /\ reads[Len(reads)].value > dec.dictSize

\* the bits the encoder has written so far, in writing order: six per
\* output symbol, then the bits still in the buffer
SymbolBits(ch) == [i \in 1..6 |-> (baseReverseDic[ch] \div Pow2(6 - i)) % 2]

RECURSIVE OutputBits(_)
OutputBits(out) ==
  IF out = << >> THEN << >> ELSE SymbolBits(Head(out)) \o OutputBits(Tail(out))

BufferBits(state) ==
  [i \in 1..state.bitCount |-> (state.buffer \div Pow2(state.bitCount - i)) % 2]

WrittenBits(e) == OutputBits(e.output) \o BufferBits(e.state)

\* the width of the k-th code on the wire with its literal payload
PayloadBits(entry) ==
  IF entry.kind = "literal" THEN (IF entry.value = 0 THEN 8 ELSE 16) ELSE 0

RECURSIVE Offset(_)
Offset(k) ==
  IF k <= 1 THEN 0 ELSE Offset(k - 1) + wire[k - 1].bits + PayloadBits(wire[k - 1])

\* n bits of the stream after the first off bits, least significant first
RECURSIVE FieldFrom(_, _, _, _)
FieldFrom(stream, off, n, i) ==
  IF i >= n THEN 0
  ELSE (IF off + i + 1 <= Len(stream) THEN stream[off + i + 1] * Pow2(i) ELSE 0)
       + FieldFrom(stream, off, n, i + 1)

Field(stream, off, n) == FieldFrom(stream, off, n, 0)

\* the code unit carried by the literal escape at wire position k
LiteralUnit(k) ==
  Field(WrittenBits(enc), Offset(k) + wire[k].bits, PayloadBits(wire[k]))

\* the wire positions of the literal escapes, in order
Literals == SelectSeq([k \in 1..Len(wire) |-> k], LAMBDA k : wire[k].kind = "literal")

\* the distinct code units of s in the order of their first occurrence
RECURSIVE FirstSeenFrom(_, _, _)
FirstSeenFrom(s, i, acc) ==
  IF i > Len(s) THEN acc
  ELSE FirstSeenFrom(s, i + 1,
         IF \E j \in 1..Len(acc) : acc[j] = s[i] THEN acc ELSE Append(acc, s[i]))

FirstSeen(s) == FirstSeenFrom(s, 1, << >>)

\* the dictionary string a code on the wire stands for
StringOf(k) == CHOOSE str_ \in DOMAIN enc.dictionary : enc.dictionary[str_] = wire[k].value

\* C23: every distinct code unit of the input is written as a literal escape
\* exactly once (marker 0 and 8 bits below 256, else marker 1 and 16 bits),
\* before any dictionary code whose string contains the code unit.
C23_LiteralOnce ==
  (pc = "enc_eos") =>
    /\ Len(Literals) = Len(FirstSeen(input))
    /\ \A n \in 1..Len(Literals) :
         /\ LiteralUnit(Literals[n]) = FirstSeen(input)[n]
         /\ wire[Literals[n]].value = (IF FirstSeen(input)[n] < 256 THEN 0 ELSE 1)
         /\ Field(WrittenBits(enc), Offset(Literals[n]), wire[Literals[n]].bits)
              = wire[Literals[n]].value
    /\ \A k \in 1..Len(wire) :
         wire[k].kind = "code" =>
           \A x \in 1..Len(StringOf(k)) :
              \E n \in 1..Len(Literals) :
                 Literals[n] < k /\ LiteralUnit(Literals[n]) = StringOf(k)[x]

C23_Witness ==
  /\ pc = "enc_eos"
  /\ input = <<65, 300, 65, 300, 65, 300>>
  /\ Len(Literals) = 2
  /\ LiteralUnit(Literals[2]) = 300
  /\ \E k \in 1..Len(wire) : wire[k].kind = "code" /\ StringOf(k) = <<65, 300>>

\* C24: end-of-stream padding always emits exactly one symbol - the buffered
\* bits followed by zero bits, or six zero bits (symbol 'A') when the buffer
\* is empty; a token for a non-empty input has floor(B/6)+1 symbols, B the
\* number of bits written before padding, and every written bit is in it.
Zeros(n) == [i \in 1..n |-> 0]

C24_PaddingOneSymbol ==
  [][ (pc = "enc_flush") =>
        /\ Len(enc'.output) = Len(enc.output) + 1
        /\ OutputBits(enc'.output) = WrittenBits(enc) \o Zeros(6 - enc.state.bitCount)
        /\ (enc.state.bitCount = 0 => enc'.output[Len(enc'.output)] = 65)
        /\ Len(WrittenBits(enc)) = Offset(Len(wire) + 1)
        /\ Len(enc'.output) = (Offset(Len(wire) + 1) \div 6) + 1
        /\ decodeURIComponent(token') = enc'.output ]_vars

C24_Witness ==
  /\ pc = "encoded"
  /\ input = <<65>>
  /\ Offset(Len(wire) + 1) = 12
  /\ enc.output = <<73, 74, 65>>

\* C25: on both sides dictionary codes are assigned consecutively from 3,
\* each at most once, and an assigned entry is never changed, removed or
\* reused during the call; codes 0, 1 and 2 never denote a string.
EncCodes == {enc.dictionary[k] : k \in DOMAIN enc.dictionary}

C25_CodesStable ==
  /\ [](/\ EncCodes = 3..(enc.dictionarySize - 1)
        /\ Cardinality(DOMAIN enc.dictionary) = enc.dictionarySize - 3)
  /\ [](pc = "dec_loop" =>
          /\ DOMAIN dec.dictionary = 0..(dec.dictSize - 1)
          /\ \A k \in 0..2 : dec.dictionary[k] = k)
  /\ [][\A k \in DOMAIN enc.dictionary :
           k \in DOMAIN enc'.dictionary /\ enc'.dictionary[k] = enc.dictionary[k]]_vars
  /\ [][pc = "dec_loop" =>
          \A k \in DOMAIN dec.dictionary :
             k \in DOMAIN dec'.dictionary /\ dec'.dictionary[k] = dec.dictionary[k]]_vars

C25_Witness ==
  /\ pc = "returned"
  /\ input = <<65, 66, 65, 66, 65, 66>>
  /\ enc.dictionarySize >= 8
  /\ dec.dictSize >= 6

\* C26: the dictionary grows by exactly one entry per processed token - each
\* code the encoder emits inside its main loop, and each non-terminating
\* iteration of the decoder's main loop, increases the size by exactly one.
EncEmits == pc = "enc_loop" /\ pc' = "enc_loop" /\ Len(wire') = Len(wire) + 1
DecIterates == pc = "dec_loop" /\ pc' = "dec_loop"

C26_GrowsByOne ==
  [][ /\ EncEmits => enc'.dictionarySize = enc.dictionarySize + 1
      /\ DecIterates => dec'.dictSize = dec.dictSize + 1 ]_vars

\* C26 as the code has it: one entry per emitted code or iteration, and one
\* more when the step meets a code unit for the first time (the encoder's
\* current code unit has no entry yet, the decoder reads a literal marker);
\* an encoder iteration that emits nothing adds the new code unit only.
NewUnit == IF <<input[enc.ii + 1]>> \in DOMAIN enc.dictionary THEN 0 ELSE 1
LiteralRead == IF reads'[Len(reads')].value \in {0, 1} THEN 1 ELSE 0

C26_GrowsByOneOrTwo ==
  [][ /\ EncEmits =>
           /\ enc'.dictionarySize = enc.dictionarySize + 1 + NewUnit
           /\ Cardinality(DOMAIN enc'.dictionary)
                = Cardinality(DOMAIN enc.dictionary) + 1 + NewUnit
      /\ (pc = "enc_loop" /\ pc' = "enc_loop" /\ wire' = wire) =>
           enc'.dictionarySize = enc.dictionarySize + NewUnit
      /\ DecIterates =>
           /\ dec'.dictSize = dec.dictSize + 1 + LiteralRead
           /\ Cardinality(DOMAIN dec'.dictionary)
                = Cardinality(DOMAIN dec.dictionary) + 1 + LiteralRead ]_vars

C26_Witness ==
  /\ pc = "returned"
  /\ input = <<65, 66>>
  /\ enc.dictionarySize = 6
  /\ dec.dictSize >= 6

\* C27: for every input of exactly one code unit, decoding the encoder's
\* token returns that code unit, although the end-of-stream marker is
\* written in 2 bits and read in 3: the third bit is a zero padding bit that
\* exists in the token.
C27_SingleUnit ==
  (pc \in {"returned", "dec_throw"} /\ Len(input) = 1 /\ str = decodeURIComponent(token)) =>
     /\ ret.kind = "return"
     /\ ret.at = "eos"
     /\ ret.value = input
     /\ wire[Len(wire)].kind = "eos" /\ wire[Len(wire)].bits = 2
     /\ reads[Len(reads)].value = 2 /\ reads[Len(reads)].bits = 3
     /\ bitsRead = Offset(Len(wire) + 1) + 1
     /\ bitsRead <= 6 * Len(str)
     /\ OutputBits(str)[bitsRead] = 0

C27_Witness ==
  /\ pc = "returned"
  /\ input = <<65535>>
  /\ ret.value = <<65535>>
  /\ Len(str) = 4
  /\ bitsRead = 21

\* C28: decompressFromEncodedURIComponent is total - for every input string
\* it returns a string and never raises an exception.
C28_DecoderTotal == pc # "dec_throw" /\ ret.kind # "throw"

\* the second call decodes the first call's token with one 'A' replaced by
\* a character of S
Damaged(i, j, S) ==
  /\ i < j
  /\ calls[i].fn = "decode" /\ calls[j].fn = "decode"
  /\ calls[i].arg # Null /\ calls[j].arg # Null
  /\ Len(calls[i].arg) = Len(calls[j].arg)
  /\ \E p \in 1..Len(calls[i].arg) :
        /\ calls[i].arg[p] = 65
        /\ calls[j].arg[p] \in S
        /\ \A q \in 1..Len(calls[i].arg) : q # p => calls[j].arg[q] = calls[i].arg[q]

\* the characters that are not among the first 64 of the alphabet
NotASymbol == (0..127) \ {alphabet[k] : k \in 1..64}

\* C29: a token character that is not one of the 64 symbols (including '$')
\* is read as six zero bits, exactly as 'A': replacing an 'A' of a token by
\* such a character never changes the decode result and raises no failure.
C29_StrangerReadsAsA ==
  \A i, j \in 1..Len(calls) :
     Damaged(i, j, NotASymbol) => calls[j].result = calls[i].result

\* C29 as the code has it: the same for every such character except the
\* space, which line 420 turns into '+' (symbol 62) before the lookup.
C29_StrangerButSpace ==
  \A i, j \in 1..Len(calls) :
     /\ Damaged(i, j, NotASymbol \ {32}) => calls[j].result = calls[i].result
     /\ (Damaged(i, j, {32}) /\ Len(calls) = 2 /\ plan = << >>) =>
           \E k \in 1..Len(calls[j].arg) :
              /\ calls[j].arg[k] = 32
              /\ dec.str = Replace(calls[j].arg, k, 43)

C29_Witness ==
  /\ Len(calls) = 2
  /\ calls[1].arg = <<65, 74>>
  /\ calls[2].arg = <<36, 74>>
  /\ Damaged(1, 2, {36})
  /\ calls[1].result.value = <<64>>
  /\ calls[2].result = calls[1].result

\* the URL the page was loaded with carries an activation token: a
\* non-empty pastePost, or ph=1 with a non-empty ph_post
CarriesToken(href) ==
  \/ \E i \in 1..Len(PageParams(href)) :
        PageParams(href)[i].name = PastePostName /\ PageParams(href)[i].value # << >>
  \/ /\ get(PageParams(href), PhName) = One
     /\ get(PageParams(href), PhPostName) \notin {Null, << >>}

NonBlank(s) == s # Null /\ \E k \in 1..Len(s) : s[k] \notin WhiteSpace

ClipboardText == IF page.clip.api = "ok" THEN page.clip.text ELSE << >>

\* C30: the autopost script clicks Post only in a page load whose URL
\* carried an activation token, and only after it has inserted non-blank
\* text into a composer textbox; with blank clipboard and blank decoded text
\* it never fills and never clicks.
C30_PostOnlyAfterFill ==
  /\ [](page.postClicks > 0 => (CarriesToken(page.loaded) /\ NonBlank(page.filled)))
  /\ [][page'.postClicks # page.postClicks =>
          (page'.postClicks = page.postClicks + 1 /\ NonBlank(page.filled)
           /\ page'.filled = page.filled)]_vars
  /\ [](page.filled # Null =>
          /\ NonBlank(page.filled)
          /\ CarriesToken(page.loaded)
          /\ \/ page.filled = ClipboardText
             \/ ~NonBlank(ClipboardText) /\ ret.kind = "return" /\ page.filled = ret.value)
  /\ []((~NonBlank(ClipboardText) /\ ret.kind # "none" /\ ~NonBlank(ret.value)) =>
          (page.filled = Null /\ page.postClicks = 0))

C30_Witness ==
  /\ pc = "ap_posted"
  /\ page.postClicks = 1
  /\ page.clip.api = "denied"
  /\ page.filled = <<65>>
  /\ page.composerClicks = 1

\* C31: every run of init that obtains a payload eventually leaves
\* sessionStorage without the stored payload - after a fill, after a
\* composer timeout, when the decoded text is blank and when decoding
\* raises an error.
C31_StorageCleared ==
  [](page.payload.value # Null => <>(page.storage = Null))

\* the stored payload is removed on every path but the decode error
StorageClearedUnlessUndecoded ==
  [](page.payload.value # Null => <>(page.storage = Null \/ pc = "af_undecoded"))

\* the first element among the getter's results, or none
FirstElement(results) ==
  IF \E i \in 1..Len(results) : results[i] # NoElement
    THEN results[CHOOSE i \in 1..Len(results) :
                   /\ results[i] # NoElement
                   /\ \A j \in 1..(i - 1) : results[j] = NoElement]
    ELSE NoElement

Settlements == Len(page.resolved) + page.rejected

\* C32: the promise returned by waitForElement settles exactly once under
\* every interleaving of mutation callbacks, interval ticks and the timeout:
\* it resolves with the first element the getter returns or rejects when the
\* timeout fires, never both; once settled, the observer, the interval and
\* the timeout are cancelled and the getter is not called again.
C32_SettlesOnce ==
  /\ [](/\ Settlements <= 1
        /\ page.resolved # << >> => page.resolved = <<FirstElement(page.results)>>
        /\ page.rejected = 1 => FirstElement(page.results) = NoElement
        /\ Settlements = 1 =>
             ~page.observing /\ ~page.interval /\ ~page.timeout)
  /\ [][Settlements = 1 => page'.results = page.results]_vars
  /\ <>(Settlements = 1)

C32_Witness ==
  /\ page.resolved # << >>
  /\ Len(page.results) >= 3
  /\ page.mutations >= 2

\* C33: in the status-tracking queue app, after any sequence of import,
\* select, copy-and-open, mark posted, skip, undo, delete and reset, their
\* asynchronous completions included, currentId is null or the id of a row
\* present in rows.
C33_CurrentIsARow ==
  page.currentId = NoRow \/ hasRow(page.rows, page.currentId)

\* with no Copy & Open in flight since the rows last changed, it is
CurrentIsARowUnlessCopying ==
  [][page.copying = {} /\ page'.copying = {} /\ C33_CurrentIsARow
       => (page'.currentId = NoRow \/ hasRow(page'.rows, page'.currentId))]_vars

\* C34: in the cooldown queue app a finishing Copy & Open writes 'opened'
\* or 'failed' to the row only if the row's status is still the 'copied'
\* set by that same Copy & Open; a status applied in between by Mark
\* posted, Fail or Retry is never overwritten.
C34_CompletionRespectsStatus ==
  \A k \in 1..Len(page.written) :
     page.written[k].status = "copied" /\ page.written[k].by = page.written[k].ticket

\* C35: in the cooldown queue app, after any sequence of import, manual
\* add, skip and shuffle, with or without an active filter, on rows with
\* pairwise distinct ids, the order computed by computeActiveOrder holds
\* every row id exactly once and no id that is not a row.
C35_OrderIsThePermutation ==
  LET activeOrder == computeActiveOrder(page.rows, page.order)
  IN (\A i, j \in 1..Len(page.rows) : i # j => page.rows[i].id # page.rows[j].id)
     => /\ Len(activeOrder) = Len(page.rows)
        /\ \A i \in 1..Len(page.rows) :
              Cardinality({k \in 1..Len(activeOrder) : activeOrder[k] = page.rows[i].id}) = 1
        /\ \A k \in 1..Len(activeOrder) : hasRow(page.rows, activeOrder[k])

\* two rows under a filter that hides one, shuffled and skipped: the stored
\* order names the shown row alone and the hidden row is the missing one
C35_Witness ==
  /\ Len(page.rows) = 2
  /\ page.filter
  /\ Len(page.order) = 1
  /\ computeActiveOrder(page.rows, page.order) # rowIds(page.rows)

\* C36: at the top of every iteration of the decoder's main loop,
\* dictSize + enlargeIn equals 2^numBits and enlargeIn is at least 1, so
\* every index the decoder may assign next fits the width it reads.
C36_WidthCoversDictionary ==
  pc = "dec_loop" =>
    /\ dec.dictSize + dec.enlargeIn = Pow2(dec.numBits)
    /\ dec.enlargeIn >= 1

\* an iteration begins after the width has grown twice
C36_Witness ==
  /\ pc = "dec_loop"
  /\ dec.numBits = 5
  /\ dec.dictSize > 16

====
